---- MODULE Spec2Model ----
(***************************************************************************)
(* RayCast3D: the band render loop (raycast3d.c), the double-buffer HAL    *)
(* (buffer.c), the DMA display driver (ST7735_DMA.c, SPI_DMA.c), the DDA   *)
(* ray caster (graphics.c) and the Q16.16 arithmetic (fixed.h, fixed.c).   *)
(*                                                                         *)
(* TLC's integers are 32-bit, so the 64-bit intermediates of fixed_mul and *)
(* fixed_div are computed in 16-bit limbs; the results are the int32       *)
(* values the C code produces (the cast to fixed_t wraps modulo 2^32).     *)
(* Operands are any int32 except INT32_MIN.                                *)
(***************************************************************************)
EXTENDS Integers, Sequences, FiniteSets, TLC

(* ------------------------------------------------------------------ *)
(* Program constants                                                   *)
(* ------------------------------------------------------------------ *)
FIXED_SHIFT == 16
FIXED_ONE == 65536
FIXED_LARGE == 2147483647
SCREEN_WIDTH == 160
SCREEN_HEIGHT == 128
BUFFER_WIDTH == SCREEN_WIDTH \div 4
BUFFER_HEIGHT == SCREEN_HEIGHT
HALF_SCREEN_HEIGHT == SCREEN_HEIGHT \div 2
HALF_SCREEN_WIDTH == SCREEN_WIDTH \div 2
SCREEN_HEIGHT_SHIFTED == SCREEN_HEIGHT * FIXED_ONE
MAP_WIDTH == 24
MAP_HEIGHT == 24
CAMERA_FOV_RATIO_FIXED == 43253
NUM_BANDS == 4
DMA_MAX_LENGTH == 65535
RECIP_GUARD == 256
MIN_PERP_WALL_DIST == 256
displayWidth == 160
displayHeight == 128

(* ------------------------------------------------------------------ *)
(* 32-bit arithmetic in 16-bit limbs                                   *)
(* ------------------------------------------------------------------ *)
Abs(v) == IF v < 0 THEN -v ELSE v

\* The int32 whose unsigned 32-bit pattern is hi * 2^16 + lo.
ToInt32(hi, lo) ==
    IF hi >= 32768 THEN (hi - 65536) * 65536 + lo ELSE hi * 65536 + lo

\* The two's complement negation of the 32-bit pattern <<hi, lo>>.
NegPair(p) ==
    IF p[1] = 0 /\ p[2] = 0 THEN p
    ELSE <<(65535 - p[1] + (IF p[2] = 0 THEN 1 ELSE 0)) % 65536,
           (65536 - p[2]) % 65536>>

\* <<hi, lo, inexact>>: floor(a * b / 2^16) modulo 2^32 for 0 <= a, b < 2^31,
\* and whether the 16 bits shifted out were non-zero.
MulShiftPair[a \in Int, b \in Int] ==
    LET ah == a \div 65536
        al == a % 65536
        bh == b \div 65536
        bl == b % 65536
        al1 == al \div 256
        al0 == al % 256
        u == al1 * bl
        v == al0 * bl
        q == (u + (v \div 256)) \div 256
        r == ((u % 256) * 256 + v) % 65536
        m1 == ah * bl
        m2 == al * bh
        loSum == (m1 % 65536) + (m2 % 65536) + q
        hiSum == ((ah * bh) % 65536) + (m1 \div 65536) + (m2 \div 65536)
                 + (loSum \div 65536)
    IN  <<hiSum % 65536, loSum % 65536, r # 0>>

\* p + 1 modulo 2^32.
IncPair(p) ==
    IF p[2] = 65535 THEN <<(p[1] + 1) % 65536, 0>> ELSE <<p[1], p[2] + 1>>

\* fixed.h: (fixed_t)(((int64_t)a * b) >> FIXED_SHIFT); >> is arithmetic.
fixed_mul[a \in Int, b \in Int] ==
    LET m == MulShiftPair[Abs(a), Abs(b)]
        p == <<m[1], m[2]>>
        neg == (a < 0) # (b < 0)
        f == IF neg THEN NegPair(IF m[3] THEN IncPair(p) ELSE p) ELSE p
    IN  ToInt32(f[1], f[2])

\* a + b and a - b as int32 (two's complement wrap, as the ARM build adds).
Add32[a \in Int, b \in Int] ==
    IF a >= 0 /\ b >= 0
    THEN (IF a > FIXED_LARGE - b
          THEN ((a - 1073741824) + (b - 1073741824)) - 1073741824 - 1073741824
          ELSE a + b)
    ELSE IF a < 0 /\ b < 0
    THEN (IF a < (-FIXED_LARGE - 1) - b
          THEN ((a + 1073741824) + (b + 1073741824)) + 1073741824 + 1073741824
          ELSE a + b)
    ELSE a + b

\* Whether the int32 addition a + b overflows (undefined behaviour in C).
AddOverflows(a, b) ==
    \/ a >= 0 /\ b >= 0 /\ a > FIXED_LARGE - b
    \/ a < 0 /\ b < 0 /\ a < (-FIXED_LARGE - 1) - b

\* The 16 fraction bits of a quotient: floor(r * 2^16 / d) for 0 <= r < d,
\* one bit per level, without forming r * 2^16.
DivBits[r \in Nat, d \in Nat, i \in Nat, q \in Nat] ==
    IF i = 0 THEN q
    ELSE IF r >= d - r
         THEN DivBits[r - (d - r), d, i - 1, 2 * q + 1]
         ELSE DivBits[2 * r, d, i - 1, 2 * q]

\* fixed.h: (fixed_t)(((int64_t)a << FIXED_SHIFT) / b); C division truncates
\* toward zero, and the cast keeps the low 32 bits. b # 0. For b = -2^31
\* the quotient is a * 2^16 / 2^31, of magnitude |a| / 2^15.
fixed_div[a \in Int, b \in Int] ==
    IF b = -FIXED_LARGE - 1
    THEN (IF a < 0 THEN Abs(a) \div 32768 ELSE -(a \div 32768))
    ELSE
    LET n == Abs(a)
        d == Abs(b)
        q == <<(n \div d) % 65536, DivBits[n % d, d, FIXED_SHIFT, 0]>>
        neg == (a < 0) # (b < 0)
        f == IF neg THEN NegPair(q) ELSE q
    IN  ToInt32(f[1], f[2])

fixed_abs[v \in Int] == IF v < 0 THEN -v ELSE v

\* FIXED_TO_INT: arithmetic shift right by 16.
FIXED_TO_INT(v) == v \div FIXED_ONE

\* FIXED_FRAC: x & (FIXED_ONE - 1).
FIXED_FRAC(v) == v % FIXED_ONE

\* fixed.c fixed_recip_large: x > -256 && x < 256, without the guard.
NearZero_Never(v) == FALSE

\* fixed.c fixed_recip_large: x > -256 && x < 256.
NearZero(v) == v > -RECIP_GUARD /\ v < RECIP_GUARD

\* fixed.c fixed_recip_large.
fixed_recip_large[v \in Int] ==
    IF v = 0 THEN FIXED_LARGE
    ELSE IF NearZero(v)
         THEN (IF v >= 0 THEN FIXED_LARGE ELSE -FIXED_LARGE)
         ELSE fixed_div[FIXED_ONE, v]

(* ------------------------------------------------------------------ *)
(* Bounds of the model                                                 *)
(* ------------------------------------------------------------------ *)
\* RayCast3D_Render calls per behaviour.
MaxFrames == 2
\* API calls a client makes per behaviour (SpecEngine).
MaxCalls == 3

(* ------------------------------------------------------------------ *)
(* State                                                               *)
(* ------------------------------------------------------------------ *)
VARIABLES
    \* SPI_DMA.c
    dmaBusy, userCallback, DMASA, DMASZ,
    \* ST7735_DMA.c
    dmaUserCallback, txBuffer,
    \* buffer.c
    Buffer_RenderBuffer, DmaBuffer, pixels,
    \* graphics.c, map.c, camera.c
    ZBuffer, worldMap, CameraState,
    \* sprites.c
    Sprites_Array, Sprites_Count,
    \* RayCast3D_Render / CastRays: program counter and locals
    pc, side, x, frame, ray,
    \* the last API call and its return value
    ret, lastCall, calls,
    \* history: the transfer in flight, transfers started and completed,
    \* callbacks invoked, and the events of the current frame
    xfer, started, completed, invoked, events,
    \* history: writes and reads of ZBuffer and the outcome of each column
    zWrites, zReads, trav, mapRead,
    \* graphics.c: the text queue, the foreground-sprite queue (each with its
    \* count as its length), the FPS overlay switch
    textQueue, fgSpriteQueue, fpsEnabled,
    \* history: the overlay draw calls of the current frame
    overlaid

engineVars == <<dmaBusy, userCallback, DMASA, DMASZ>>
driverVars == <<dmaUserCallback, txBuffer>>
bufferVars == <<Buffer_RenderBuffer, DmaBuffer, pixels>>
sceneVars == <<worldMap, CameraState, Sprites_Array, Sprites_Count>>
loopVars == <<pc, side, x, frame, ray>>
callVars == <<ret, lastCall, calls>>
xferVars == <<xfer, started, completed, invoked>>
zVars == <<ZBuffer, zWrites, zReads, trav, mapRead>>
overlayVars == <<textQueue, fgSpriteQueue, fpsEnabled, overlaid>>
vars == <<engineVars, driverVars, bufferVars, sceneVars, loopVars, callVars,
          xferVars, events, zVars, overlayVars>>

Buffers == {"BufferA", "BufferB"}
Columns == 0 .. (SCREEN_WIDTH - 1)
BufCols == 0 .. (BUFFER_WIDTH - 1)
NULL == 0
NoXfer == [id |-> 0, image |-> "none", side |-> -1, cb |-> NULL]
\* The channel is enabled and its completion interrupt has not fired.
InFlight == xfer.id # 0
NoRay == [rayDirX |-> 0, rayDirY |-> 0, mapX |-> 0, mapY |-> 0,
          deltaDistX |-> 0, deltaDistY |-> 0, stepX |-> 0, stepY |-> 0,
          sideDistX |-> 0, sideDistY |-> 0, hit |-> 0, sideHit |-> 0,
          maxSteps |-> 0, nSteps |-> 0]
NoRead == <<0, 0>>

\* A column of a render buffer: the background left by Buffer_Clear, the
\* wall span drawn by CastRays, the sprites drawn over it.
Background == [wall |-> <<>>, sprites |-> <<>>, set |-> <<>>]
ZeroPixels ==
    [c \in BufCols |-> [wall |-> <<>>, sprites |-> <<>>, set |-> <<>>]]

(* ------------------------------------------------------------------ *)
(* Maps and cameras the behaviours start from                          *)
(* ------------------------------------------------------------------ *)
OnPerimeter(r, c) == r = 0 \/ c = 0 \/ r = MAP_HEIGHT - 1 \/ c = MAP_WIDTH - 1

\* Closed perimeter, one pillar.
ClosedMap ==
    [r \in 0 .. (MAP_HEIGHT - 1) |-> [c \in 0 .. (MAP_WIDTH - 1) |->
        IF OnPerimeter(r, c) THEN 1
        ELSE IF r = 9 /\ c = 14 THEN 2 ELSE 0]]

\* Perimeter with a gap in the top row and in the right column.
GapMap ==
    [r \in 0 .. (MAP_HEIGHT - 1) |-> [c \in 0 .. (MAP_WIDTH - 1) |->
        IF OnPerimeter(r, c)
        THEN (IF (r = 0 /\ c \in 8 .. 13) \/ (c = MAP_WIDTH - 1 /\ r \in 3 .. 6)
              THEN 0 ELSE 1)
        ELSE IF r = 15 /\ c = 6 THEN 3 ELSE 0]]

\* No wall at all.
OpenMap ==
    [r \in 0 .. (MAP_HEIGHT - 1) |-> [c \in 0 .. (MAP_WIDTH - 1) |-> 0]]

\* camera.c: the plane Camera_SetDirection and Camera_Rotate derive from the
\* direction.
PlaneOf_Unscaled(dirX, dirY) == [planeX |-> -dirY, planeY |-> dirX]

PlaneOf(dirX, dirY) ==
    [planeX |-> -fixed_mul[dirY, CAMERA_FOV_RATIO_FIXED],
     planeY |-> fixed_mul[dirX, CAMERA_FOV_RATIO_FIXED]]

\* The camera at fixed-point position (px, py) facing the unit axis
\* direction (dx, dy): what Camera_SetPosition and Camera_SetDirection leave.
CameraAt(px, py, dx, dy) ==
    [posX |-> px, posY |-> py, dirX |-> dx, dirY |-> dy,
     planeX |-> PlaneOf(dx, dy).planeX, planeY |-> PlaneOf(dx, dy).planeY]

\* camera.c: the initial CameraState.
InitialCamera == CameraAt(12 * FIXED_ONE, 12 * FIXED_ONE, 0, -FIXED_ONE)

(* ------------------------------------------------------------------ *)
(* graphics.c: CastRays, one column at a time                          *)
(* ------------------------------------------------------------------ *)
\* Signed overflow of an int addition is undefined in C.  The build either
\* wraps (the ARM add) or carries the exact sum in a wider temporary, which
\* compares above every int32; both outcomes are kept.
SumOutcomes(a, b) ==
    IF AddOverflows(a, b)
    THEN {Add32[a, b], IF a >= 0 THEN FIXED_LARGE ELSE -FIXED_LARGE}
    ELSE {a + b}

\* (2 * FIXED_ONE) / SCREEN_WIDTH
cameraX_step == (2 * FIXED_ONE) \div SCREEN_WIDTH

\* The ray of screen column col: direction, start cell, deltaDist, step and
\* initial sideDist.
RaySetup(cam, col) ==
    LET cameraX == (col * cameraX_step) - FIXED_ONE
        rayDirX == Add32[cam.dirX, fixed_mul[cam.planeX, cameraX]]
        rayDirY == Add32[cam.dirY, fixed_mul[cam.planeY, cameraX]]
        deltaDistX == IF rayDirX = 0 THEN FIXED_LARGE
                      ELSE fixed_abs[fixed_recip_large[rayDirX]]
        deltaDistY == IF rayDirY = 0 THEN FIXED_LARGE
                      ELSE fixed_abs[fixed_recip_large[rayDirY]]
        posXfrac == FIXED_FRAC(cam.posX)
        posYfrac == FIXED_FRAC(cam.posY)
    IN  [rayDirX |-> rayDirX, rayDirY |-> rayDirY,
         mapX |-> FIXED_TO_INT(cam.posX), mapY |-> FIXED_TO_INT(cam.posY),
         deltaDistX |-> deltaDistX, deltaDistY |-> deltaDistY,
         stepX |-> IF rayDirX < 0 THEN -1 ELSE 1,
         stepY |-> IF rayDirY < 0 THEN -1 ELSE 1,
         sideDistX |-> IF rayDirX < 0 THEN fixed_mul[posXfrac, deltaDistX]
                       ELSE fixed_mul[FIXED_ONE - posXfrac, deltaDistX],
         sideDistY |-> IF rayDirY < 0 THEN fixed_mul[posYfrac, deltaDistY]
                       ELSE fixed_mul[FIXED_ONE - posYfrac, deltaDistY],
         hit |-> 0, sideHit |-> 0,
         maxSteps |-> MAP_WIDTH + MAP_HEIGHT, nSteps |-> 0]

\* The bounds check of the DDA loop, negated: the cell is inside the map.
InMapBounds_Unchecked(mx, my) == TRUE

InMapBounds(mx, my) ==
    ~(mx < 0 \/ mx >= MAP_WIDTH \/ my < 0 \/ my >= MAP_HEIGHT)

\* The values a read of worldMap[my][mx] can give: the cell, or whatever
\* lies there when the index is outside the array.
CellValues(my, mx) ==
    IF my \in 0 .. (MAP_HEIGHT - 1) /\ mx \in 0 .. (MAP_WIDTH - 1)
    THEN {worldMap[my][mx]}
    ELSE {0, 1}

\* The loop running on after a wall was found, until the budget is spent.
DDA_Continue_PastWalls(r) == r.hit # 0 - 1 /\ r.maxSteps > 0

\* The while condition of the DDA loop.
DDA_Continue(r) == r.hit = 0 /\ r.maxSteps > 0

\* The test that skips a column after the loop.
SkipColumn_OnlyNoHit(r) == r.hit = 0

SkipColumn(r) == r.maxSteps <= 0 \/ r.hit # 1

BandStart(sd) == sd * BUFFER_WIDTH
BandEnd(sd) == BandStart(sd) + BUFFER_WIDTH

\* for (x = startX; ...): the ray of column x is set up.
CastRays_Column ==
    /\ pc = "col"
    /\ ray' = RaySetup(CameraState, x)
    /\ pc' = "dda"
    /\ UNCHANGED <<overlayVars,
                   engineVars, driverVars, bufferVars, sceneVars, side, x,
                   frame, callVars, xferVars, events, zVars>>

\* One iteration of the DDA loop.
DDA_Step ==
    /\ pc = "dda"
    /\ DDA_Continue(ray)
    /\ LET stepInX == ray.sideDistX < ray.sideDistY
           mx == IF stepInX THEN ray.mapX + ray.stepX ELSE ray.mapX
           my == IF stepInX THEN ray.mapY ELSE ray.mapY + ray.stepY
       IN  \E sd \in (IF stepInX
                      THEN SumOutcomes(ray.sideDistX, ray.deltaDistX)
                      ELSE SumOutcomes(ray.sideDistY, ray.deltaDistY)) :
             LET moved == [ray EXCEPT
                              !.maxSteps = @ - 1, !.nSteps = @ + 1,
                              !.sideDistX = IF stepInX THEN sd ELSE @,
                              !.sideDistY = IF stepInX THEN @ ELSE sd,
                              !.mapX = mx, !.mapY = my,
                              !.sideHit = IF stepInX THEN 0 ELSE 1]
             IN  IF ~InMapBounds(mx, my)
                 THEN /\ ray' = [moved EXCEPT !.hit = -1]
                      /\ UNCHANGED mapRead
                 ELSE \E cell \in CellValues(my, mx) :
                        /\ ray' = [moved EXCEPT
                                      !.hit = IF cell > 0 THEN 1 ELSE @]
                        /\ mapRead' = <<my, mx>>
    /\ UNCHANGED <<overlayVars,
                   engineVars, driverVars, bufferVars, sceneVars, pc, side, x,
                   frame, callVars, xferVars, events, ZBuffer, zWrites,
                   zReads, trav>>

\* How the traversal of a column ended, read off the cell it stopped in.
Traversal(r) ==
    IF ~(r.mapX \in 0 .. (MAP_WIDTH - 1) /\ r.mapY \in 0 .. (MAP_HEIGHT - 1))
    THEN "left"
    ELSE IF worldMap[r.mapY][r.mapX] > 0 THEN "wall" ELSE "budget"

\* The vertical span drawn for a wall at distance p.
WallSpan(p) ==
    LET lineHeight == SCREEN_HEIGHT_SHIFTED \div p
        halfLineHeight == lineHeight \div 2
        ds == HALF_SCREEN_HEIGHT - halfLineHeight
        de == HALF_SCREEN_HEIGHT + halfLineHeight
    IN  <<IF ds < 0 THEN 0 ELSE ds,
          IF de > SCREEN_HEIGHT THEN SCREEN_HEIGHT ELSE de>>

\* After the loop: the column is skipped, or its depth is stored and its
\* wall span drawn; then the next column, or the end of the band.
CastRays_Finish ==
    /\ pc = "dda"
    /\ ~DDA_Continue(ray)
    /\ trav' = [trav EXCEPT ![x] = Traversal(ray)]
    /\ IF SkipColumn(ray)
       THEN UNCHANGED <<ZBuffer, zWrites, pixels, mapRead>>
       ELSE \E d \in (IF ray.sideHit = 0
                      THEN SumOutcomes(ray.sideDistX, -ray.deltaDistX)
                      ELSE SumOutcomes(ray.sideDistY, -ray.deltaDistY)) :
              LET perpWallDist == IF d < MIN_PERP_WALL_DIST
                                  THEN MIN_PERP_WALL_DIST ELSE d
                  span == WallSpan(perpWallDist)
                  bufferX == x - BandStart(side)
              IN  /\ ZBuffer' = [ZBuffer EXCEPT ![x] = perpWallDist]
                  /\ zWrites' = [zWrites EXCEPT
                                   ![x] = Append(@, [by |-> "CastRays", side |-> side,
                                                   val |-> perpWallDist])]
                  /\ mapRead' = <<ray.mapY, ray.mapX>>
                  /\ pixels' = IF span[1] < span[2]
                               THEN [pixels EXCEPT
                                       ![Buffer_RenderBuffer][bufferX].wall = span]
                               ELSE pixels
    /\ x' = x + 1
    /\ pc' = IF x + 1 < BandEnd(side) THEN "col" ELSE "Sprites"
    /\ ray' = NoRay
    /\ UNCHANGED <<overlayVars,
                   engineVars, driverVars, Buffer_RenderBuffer, DmaBuffer,
                   sceneVars, side, frame, callVars, xferVars, events, zReads>>

(* ------------------------------------------------------------------ *)
(* sprites.c: Sprites_RenderAll and Sprites_RenderOne                  *)
(* ------------------------------------------------------------------ *)
SPRITES_MAX_COUNT == 16
MAX_VISIBLE_COLUMNS == 80
BEHIND_CAMERA == 6554
Slots == 0 .. (SPRITES_MAX_COUNT - 1)

\* A sprite position is a double; the model keeps positions that are whole
\* multiples of a half, as the number of halves. FLOAT_TO_FIXED multiplies
\* by FIXED_ONE and truncates.
FLOAT_TO_FIXED(halves) == halves * (FIXED_ONE \div 2)

EmptySlot == [active |-> 0, x |-> 0, y |-> 0, width |-> 0, height |-> 0,
              scale |-> 0, image |-> 0, transparent |-> 0, type |-> 0]
SpriteAt(hx, hy, w, h, sc) ==
    [active |-> 1, x |-> hx, y |-> hy, width |-> w, height |-> h, scale |-> sc,
     image |-> 1, transparent |-> 0, type |-> 0]

\* The distance Sprites_RenderAll sorts by.
SpriteDistance(i) ==
    LET dx == CameraState.posX - FLOAT_TO_FIXED(Sprites_Array[i].x)
        dy == CameraState.posY - FLOAT_TO_FIXED(Sprites_Array[i].y)
    IN  fixed_mul[dx, dx] + fixed_mul[dy, dy]

RECURSIVE Perms(_)
Perms(S) ==
    IF S = {} THEN {<<>>}
    ELSE UNION {{<<e>> \o t : t \in Perms(S \ {e})} : e \in S}

\* The active slots sorted with the comparison reversed: near to far.
SpriteOrders_NearFirst ==
    {o \in Perms({i \in Slots : Sprites_Array[i].active # 0}) :
        \A k \in 1 .. (Len(o) - 1) :
            SpriteDistance(o[k]) <= SpriteDistance(o[k + 1])}

\* The orders qsort with compareSprites can leave the active slots in: far
\* to near, equal distances in any order.
SpriteOrders ==
    {o \in Perms({i \in Slots : Sprites_Array[i].active # 0}) :
        \A k \in 1 .. (Len(o) - 1) :
            SpriteDistance(o[k]) >= SpriteDistance(o[k + 1])}

\* The band test of pass 1 of Sprites_RenderOne.
InSideRange_Any(stripe, sd) == TRUE

InSideRange(stripe, sd) ==
    stripe >= sd * BUFFER_WIDTH /\ stripe < sd * BUFFER_WIDTH + BUFFER_WIDTH

\* The depth test of pass 1.
DepthTest_Always(transformY, stripe) == TRUE

DepthTest(transformY, stripe) == transformY < ZBuffer[stripe]

\* Sprites_RenderOne, the inverse camera transformation of the sprite.
SpriteDet ==
    fixed_mul[CameraState.planeX, CameraState.dirY]
    - fixed_mul[CameraState.dirX, CameraState.planeY]

SpriteTransformX(sprite, invDet) ==
    LET spriteX == FLOAT_TO_FIXED(sprite.x) - CameraState.posX
        spriteY == FLOAT_TO_FIXED(sprite.y) - CameraState.posY
    IN  fixed_mul[invDet, fixed_mul[CameraState.dirY, spriteX]
                          - fixed_mul[CameraState.dirX, spriteY]]

SpriteTransformY(sprite, invDet) ==
    LET spriteX == FLOAT_TO_FIXED(sprite.x) - CameraState.posX
        spriteY == FLOAT_TO_FIXED(sprite.y) - CameraState.posY
    IN  fixed_mul[invDet, (-fixed_mul[CameraState.planeY, spriteX])
                          + fixed_mul[CameraState.planeX, spriteY]]

\* Sprites_RenderOne, the drawing boundaries from the scaled dimensions.
SpriteBounds(spriteScreenX, originalSpriteHeight, spriteHeight, spriteWidth) ==
    LET pushdown == (originalSpriteHeight - spriteHeight) \div 2
        startY == HALF_SCREEN_HEIGHT - (spriteHeight \div 2) - pushdown
        endY == HALF_SCREEN_HEIGHT + (spriteHeight \div 2) - pushdown
    IN  [spriteWidth |-> spriteWidth, spriteHeight |-> spriteHeight,
         drawStartY |-> IF startY < 0 THEN 0 ELSE startY,
         drawEndY |-> IF endY > SCREEN_HEIGHT THEN SCREEN_HEIGHT ELSE endY,
         drawStartX |-> spriteScreenX - (spriteWidth \div 2),
         drawEndX |-> spriteScreenX + ((spriteWidth + 1) \div 2)]

\* Sprites_RenderOne, the projection to the screen and the dimensions.
SpriteDimensions(sprite, spriteScreenX, originalSpriteHeight) ==
    SpriteBounds(spriteScreenX, originalSpriteHeight,
                 (originalSpriteHeight * sprite.scale) \div 8,
                 (((originalSpriteHeight * sprite.width) \div sprite.height)
                     * sprite.scale) \div 8)

SpriteProject(sprite, transformX, transformY) ==
    SpriteDimensions(sprite,
        (HALF_SCREEN_WIDTH * (FIXED_ONE + fixed_div[transformX, transformY]))
            \div FIXED_ONE,
        SCREEN_HEIGHT_SHIFTED \div transformY)

NotDrawn == [drawn |-> FALSE, depth |-> 0, reads |-> {}, visible |-> {},
             rows |-> <<0, 0>>]

\* Sprites_RenderOne, pass 1: the stripes tested against ZBuffer and the
\* ones found visible; the loop stops once MAX_VISIBLE_COLUMNS are listed.
SpritePass1(sprite, sd, transformY, box, tested) ==
    LET passes == {c \in tested :
                     /\ DepthTest(transformY, c)
                     /\ ((c - box.drawStartX) * sprite.width) \div box.spriteWidth
                            \in 0 .. (sprite.width - 1)}
        last == IF Cardinality(passes) >= MAX_VISIBLE_COLUMNS
                THEN CHOOSE c \in passes :
                       Cardinality({v \in passes : v <= c}) = MAX_VISIBLE_COLUMNS
                ELSE SCREEN_WIDTH
    IN  [drawn |-> TRUE, depth |-> transformY,
         reads |-> {c \in tested : c <= last},
         visible |-> {c \in passes : c <= last},
         rows |-> <<box.drawStartY, box.drawEndY>>]

SpriteClip(sprite, sd, transformY, box) ==
    IF box.spriteWidth <= 0 \/ box.spriteHeight <= 0 THEN NotDrawn
    ELSE SpritePass1(sprite, sd, transformY, box,
                     {c \in Columns : /\ c >= box.drawStartX
                                      /\ c < box.drawEndX
                                      /\ InSideRange(c, sd)})

SpriteFront(sprite, sd, transformX, transformY) ==
    IF transformY <= BEHIND_CAMERA THEN NotDrawn
    ELSE SpriteClip(sprite, sd, transformY,
                    SpriteProject(sprite, transformX, transformY))

\* Sprites_RenderOne(sprite, side): whether anything is projected, the
\* ZBuffer columns pass 1 reads, the columns it finds visible, and the rows
\* pass 2 draws.
SpriteInverse(sprite, sd, invDet) ==
    SpriteFront(sprite, sd, SpriteTransformX(sprite, invDet),
                SpriteTransformY(sprite, invDet))

Sprites_RenderOne(sprite, sd) ==
    IF SpriteDet = 0 THEN NotDrawn
    ELSE SpriteInverse(sprite, sd, fixed_recip_large[SpriteDet])

\* The screen columns pass 2 of Sprites_RenderOne draws for slot i.
SpriteColumns(i, sd) ==
    IF Sprites_Array[i].width = 0 THEN {}
    ELSE {c \in Sprites_RenderOne(Sprites_Array[i], sd).visible :
            Sprites_RenderOne(Sprites_Array[i], sd).rows[1]
                < Sprites_RenderOne(Sprites_Array[i], sd).rows[2]}

\* Pass 2 for the sprites in order: each draws its visible columns, at
\* buffer column stripe - side * BUFFER_WIDTH, over what is there.
DrawSprites(order, sd, buf) ==
    [b \in BufCols |->
        [buf[b] EXCEPT !.sprites =
            @ \o SelectSeq(order,
                           LAMBDA i : (b + sd * BUFFER_WIDTH)
                                         \in SpriteColumns(i, sd))]]

\* The ZBuffer columns the sprite stage reads for the band.
SpriteReads(sd) ==
    UNION {IF Sprites_Array[i].active # 0 /\ Sprites_Array[i].width # 0
           THEN Sprites_RenderOne(Sprites_Array[i], sd).reads
           ELSE {} : i \in Slots}

\* Sprites_RenderAll(side)
Sprites_RenderAll ==
    /\ pc = "Sprites"
    /\ \E order \in SpriteOrders :
         pixels' = [pixels EXCEPT ![Buffer_RenderBuffer] =
                       DrawSprites(order, side, @)]
    /\ zReads' = zReads \cup {<<side, c>> : c \in SpriteReads(side)}
    /\ pc' = "Overlays"
    /\ UNCHANGED <<overlayVars,
                   engineVars, driverVars, Buffer_RenderBuffer, DmaBuffer,
                   sceneVars, side, x, frame, ray, callVars, xferVars, events,
                   ZBuffer, zWrites, trav, mapRead>>

(* ------------------------------------------------------------------ *)
(* SPI_DMA.c: the transfer engine                                      *)
(* ------------------------------------------------------------------ *)
\* Callbacks are numbers: NULL is 0, DMA_InternalCallback (ST7735_DMA.c) is
\* -1, and the callback a client passes with its k-th call is k, so that an
\* invocation tells which registration fired.
DMA_InternalCallback == 0 - 1

\* The parameter check of SPI_DMA_StartTransfer.
BadParams_NoUpperLimit(data, length) == data = "NULL" \/ length = 0

BadParams(data, length) ==
    data = "NULL" \/ length = 0 \/ length > DMA_MAX_LENGTH

\* The busy check of SPI_DMA_StartTransfer.
EngineBusy == dmaBusy # 0

\* The registration a refused SPI_DMA_StartTransfer leaves: both early
\* returns come before the callback is stored.
RefusedRegistration_Stored(callback) == callback

RefusedRegistration(callback) == userCallback

\* SPI_DMA_StartTransfer(data, length, callback); the return value is ret'.
\* Enabling the channel puts a transfer in flight (xfer); note tells the
\* history whose buffer and callback it carries.
SPI_DMA_StartTransfer(data, length, callback, note) ==
    IF EngineBusy \/ BadParams(data, length)
    THEN /\ ret' = 0 - 1
         /\ userCallback' = RefusedRegistration(callback)
         /\ UNCHANGED <<dmaBusy, DMASA, DMASZ, xfer, started>>
    ELSE /\ dmaBusy' = 1
         /\ userCallback' = callback
         /\ DMASA' = data
         /\ DMASZ' = length % 65536
         /\ ret' = 0
         /\ xfer' = [id |-> Len(started) + 1, image |-> note.image,
                     side |-> note.side, cb |-> note.cb]
         /\ started' = Append(started,
                              [id |-> Len(started) + 1, image |-> note.image,
                               side |-> note.side, cb |-> note.cb,
                               frame |-> frame])

\* SPI_DMA_IsBusy
SPI_DMA_IsBusy == dmaBusy

\* SPI_DMA_WaitComplete returns once dmaBusy is 0.
WaitDone_NoWait == TRUE

WaitDone == dmaBusy = 0

(* ------------------------------------------------------------------ *)
(* ST7735_DMA.c: the display driver                                    *)
(* ------------------------------------------------------------------ *)
\* The "nothing to draw" test of ST7735_DrawBitmapDMA.
OffScreen(px, py, w, h) ==
    px >= displayWidth \/ py < 0 \/ (px + w) <= 0 \/ (py - h + 1) >= displayHeight

\* ST7735_DrawBitmapDMA(x, y, image, w, h, callback): the pixels of image
\* are copied, byte-swapped, into txBuffer, which is what the engine reads.
ST7735_DrawBitmapDMA(px, py, image, w, h, callback) ==
    IF SPI_DMA_IsBusy # 0
    THEN /\ ret' = 0 - 1
         /\ UNCHANGED <<engineVars, driverVars, xfer, started>>
    ELSE IF OffScreen(px, py, w, h)
    THEN /\ ret' = 0
         /\ UNCHANGED <<engineVars, driverVars, xfer, started>>
    ELSE /\ txBuffer' = [image |-> image, x0 |-> px, x1 |-> px + w - 1,
                         content |-> pixels[image]]
         /\ dmaUserCallback' = callback
         /\ SPI_DMA_StartTransfer("txBuffer", (w * h) * 2, DMA_InternalCallback,
                                  [image |-> image, side |-> px \div BUFFER_WIDTH,
                                   cb |-> callback])

\* What DMA_IRQHandler's cb() does: the driver's wrapper forwards to the
\* callback the driver stored, once; a client's own callback just runs.
RunCallback(cb) ==
    IF cb = DMA_InternalCallback
    THEN (IF dmaUserCallback # NULL
          THEN /\ dmaUserCallback' = NULL
               /\ invoked' = Append(invoked, dmaUserCallback)
          ELSE UNCHANGED <<dmaUserCallback, invoked>>)
    ELSE /\ invoked' = Append(invoked, cb)
         /\ UNCHANGED dmaUserCallback

\* DMA_IRQHandler: the channel's completion interrupt; it preempts the
\* render loop between any two of its steps.
DMA_IRQHandler ==
    /\ xfer.id # 0
    /\ dmaBusy' = 0
    /\ IF userCallback # NULL
       THEN /\ userCallback' = NULL
            /\ RunCallback(userCallback)
       ELSE UNCHANGED <<userCallback, dmaUserCallback, invoked>>
    /\ completed' = completed \cup {xfer.id}
    /\ xfer' = NoXfer
    /\ UNCHANGED <<overlayVars,
                   DMASA, DMASZ, txBuffer, bufferVars, sceneVars, loopVars,
                   callVars, started, events, zVars>>

(* ------------------------------------------------------------------ *)
(* buffer.c and raycast3d.c: the render loop                           *)
(* ------------------------------------------------------------------ *)
\* clearZBuffer: every column gets the sentinel.
clearZBuffer_FirstBand(z) ==
    [c \in Columns |-> IF c < BUFFER_WIDTH THEN FIXED_LARGE ELSE z[c]]

clearZBuffer(z) == [c \in Columns |-> FIXED_LARGE]

\* for (side = 0; side < 4; side++)
NextBand_Skip(sd) == sd + 2

NextBand(sd) == sd + 1

\* RayCast3D_Render is entered: clearZBuffer.
RayCast3D_Render ==
    /\ pc = "idle"
    /\ frame < MaxFrames
    /\ frame' = frame + 1
    /\ ZBuffer' = clearZBuffer(ZBuffer)
    /\ zWrites' = [c \in Columns |-> <<>>]
    /\ trav' = [c \in Columns |-> "none"]
    /\ zReads' = {}
    /\ events' = <<[ev |-> "clearZ", side |-> 0, val |-> 0, buf |-> "none"]>>
    /\ side' = 0
    /\ overlaid' = <<>>
    /\ pc' = "Buffer_Clear"
    /\ UNCHANGED <<engineVars, driverVars, bufferVars, sceneVars, x, ray,
                   callVars, xferVars, mapRead, textQueue, fgSpriteQueue,
                   fpsEnabled>>

\* Buffer_Clear: sky and floor gradient over the whole render buffer.
Buffer_Clear ==
    /\ pc = "Buffer_Clear"
    /\ pixels' = [pixels EXCEPT
                    ![Buffer_RenderBuffer] = [c \in BufCols |-> Background]]
    /\ x' = BandStart(side)
    /\ pc' = "col"
    /\ UNCHANGED <<overlayVars,
                   engineVars, driverVars, Buffer_RenderBuffer, DmaBuffer,
                   sceneVars, side, frame, ray, callVars, xferVars, events,
                   zVars>>

MAX_TEXT_QUEUE == 8
MAX_TEXT_LENGTH == 32
MAX_FG_SPRITE_QUEUE == 8

\* drawFGSpriteQueue(side), drawTextQueue(side): one draw call per entry of
\* the queue, in queue order, on the render buffer.
DrawCalls(kind, queue, sd) ==
    [i \in 1 .. Len(queue) |->
       [kind |-> kind, side |-> sd, entry |-> queue[i],
        buf |-> Buffer_RenderBuffer]]

\* drawFPSOverlay(side): one draw call when the overlay is enabled.
FPSDrawCalls(sd) ==
    IF fpsEnabled = 0 THEN <<>>
    ELSE <<[kind |-> "fps", side |-> sd, entry |-> 0,
            buf |-> Buffer_RenderBuffer]>>

\* The overlay draw calls of band sd, made for band 0 only.
OverlayDraws_FirstBand(sd) ==
    IF sd # 0 THEN <<>>
    ELSE DrawCalls("fg", fgSpriteQueue, sd) \o DrawCalls("text", textQueue, sd)
         \o FPSDrawCalls(sd)

\* The overlay draw calls of band sd: the foreground sprites, the texts,
\* the FPS overlay.
OverlayDraws(sd) ==
    DrawCalls("fg", fgSpriteQueue, sd) \o DrawCalls("text", textQueue, sd)
    \o FPSDrawCalls(sd)

\* Graphics_RenderOverlays(side): drawFGSpriteQueue, drawTextQueue,
\* drawFPSOverlay.
Graphics_RenderOverlays ==
    /\ pc = "Overlays"
    /\ overlaid' = overlaid \o OverlayDraws(side)
    /\ pc' = "Wait"
    /\ UNCHANGED <<engineVars, driverVars, bufferVars, sceneVars, side, x,
                   frame, ray, callVars, xferVars, events, zVars, textQueue,
                   fgSpriteQueue, fpsEnabled>>

\* Buffer_WaitComplete: returns when the engine is idle.
Buffer_WaitComplete ==
    /\ pc = "Wait"
    /\ WaitDone
    /\ pc' = "RenderDMA"
    /\ UNCHANGED <<overlayVars,
                   engineVars, driverVars, bufferVars, sceneVars, side, x,
                   frame, ray, callVars, xferVars, events, zVars>>

\* The pointer swap of Buffer_RenderDMA: <<render, dma>> afterwards.
Buffer_Swap_None(render, dma) == <<render, dma>>

Buffer_Swap(render, dma) == <<dma, render>>

\* Buffer_RenderDMA, first half: the render and DMA pointers are swapped.
Buffer_RenderDMA_Swap ==
    /\ pc = "RenderDMA"
    /\ Buffer_RenderBuffer' = Buffer_Swap(Buffer_RenderBuffer, DmaBuffer)[1]
    /\ DmaBuffer' = Buffer_Swap(Buffer_RenderBuffer, DmaBuffer)[2]
    /\ events' = Append(events, [ev |-> "swap", side |-> side, val |-> dmaBusy,
                                 buf |-> Buffer_RenderBuffer])
    /\ pc' = "RenderDMA_start"
    /\ UNCHANGED <<overlayVars,
                   engineVars, driverVars, pixels, sceneVars, side, x, frame,
                   ray, callVars, xferVars, zVars>>

\* The image Buffer_RenderDMA hands to ST7735_DrawBitmapDMA.
RenderDMA_Image_RenderBuffer == Buffer_RenderBuffer

RenderDMA_Image == DmaBuffer

\* Buffer_RenderDMA, second half: the transfer of the band is started; then
\* the loop goes to the next band, or leaves the loop.
Buffer_RenderDMA_Start ==
    /\ pc = "RenderDMA_start"
    /\ ST7735_DrawBitmapDMA(side * BUFFER_WIDTH, BUFFER_HEIGHT - 1,
                            RenderDMA_Image, BUFFER_WIDTH, BUFFER_HEIGHT, NULL)
    /\ events' = Append(events, [ev |-> "start", side |-> side, val |-> ret',
                                 buf |-> RenderDMA_Image])
    /\ lastCall' = [op |-> "Buffer_RenderDMA", id |-> 0, cb |-> NULL,
                     data |-> RenderDMA_Image, length |-> 0, busy |-> dmaBusy]
    /\ side' = NextBand(side)
    /\ pc' = IF NextBand(side) < NUM_BANDS THEN "Buffer_Clear"
             ELSE "ClearQueues"
    /\ UNCHANGED <<overlayVars,
                   bufferVars, sceneVars, x, frame, ray, calls, completed,
                   invoked, zVars>>

\* textQueueCount = 0, fgSpriteQueueCount = 0: no entry is left.
ClearedQueue(queue) == <<>>

\* Graphics_ClearOverlayQueues, and RayCast3D_Render returns.
Graphics_ClearOverlayQueues ==
    /\ pc = "ClearQueues"
    /\ textQueue' = ClearedQueue(textQueue)
    /\ fgSpriteQueue' = ClearedQueue(fgSpriteQueue)
    /\ pc' = "idle"
    /\ UNCHANGED <<engineVars, driverVars, bufferVars, sceneVars, side, x,
                   frame, ray, callVars, xferVars, events, zVars, fpsEnabled,
                   overlaid>>

(* ------------------------------------------------------------------ *)
(* The render loop with the completion interrupt                       *)
(* ------------------------------------------------------------------ *)
InitEngine ==
    /\ dmaBusy = 0
    /\ userCallback = NULL
    /\ DMASA = "none"
    /\ DMASZ = 0
    /\ dmaUserCallback = NULL
    /\ txBuffer = [image |-> "none", x0 |-> 0, x1 |-> 0, content |-> ZeroPixels]
    /\ Buffer_RenderBuffer = "BufferA"
    /\ DmaBuffer = "BufferB"
    /\ pixels = [b \in Buffers |-> ZeroPixels]
    /\ ret = 0
    /\ lastCall = [op |-> "none", id |-> 0, cb |-> NULL, data |-> "none",
                    length |-> 0, busy |-> 0]
    /\ calls = 0
    /\ xfer = NoXfer
    /\ started = <<>>
    /\ completed = {}
    /\ invoked = <<>>
    /\ events = <<>>

\* graphics.c: both queues empty, the FPS overlay off.
InitGraphics ==
    /\ textQueue = <<>>
    /\ fgSpriteQueue = <<>>
    /\ fpsEnabled = 0
    /\ overlaid = <<>>

InitScene ==
    /\ ZBuffer = [c \in Columns |-> 0]
    /\ zWrites = [c \in Columns |-> <<>>]
    /\ zReads = {}
    /\ trav = [c \in Columns |-> "none"]
    /\ mapRead = NoRead
    /\ ray = NoRay
    /\ side = 0
    /\ x = 0
    /\ frame = 0

\* The cameras the render loop is run with.
RenderCameras ==
    {InitialCamera,
     CameraAt(22 * FIXED_ONE + 32768, 4 * FIXED_ONE + 32768, FIXED_ONE, 0)}

\* The sprite tables the behaviours start from: none; or one sprite in the
\* open in front of either camera, one behind the pillar, one behind the
\* camera, one beyond the top row of the map next to its gap.
NoSprites == [i \in Slots |-> EmptySlot]
SpriteSets ==
    {NoSprites,
     [NoSprites EXCEPT ![0] = SpriteAt(24, 18, 16, 16, 8),
                       ![2] = SpriteAt(29, 15, 16, 16, 8),
                       ![3] = SpriteAt(40, 9, 32, 32, 4),
                       ![5] = SpriteAt(24, 30, 16, 16, 8),
                       ![7] = SpriteAt(28, -2, 16, 16, 8)]}

Init ==
    /\ InitEngine
    /\ InitGraphics
    /\ InitScene
    /\ pc = "idle"
    /\ worldMap \in {ClosedMap, GapMap}
    /\ CameraState \in RenderCameras
    /\ Sprites_Array \in SpriteSets
    /\ Sprites_Count = Cardinality({i \in Slots : Sprites_Array[i].active # 0})

RenderStep ==
    \/ RayCast3D_Render
    \/ Buffer_Clear
    \/ CastRays_Column
    \/ DDA_Step
    \/ CastRays_Finish
    \/ Sprites_RenderAll
    \/ Graphics_RenderOverlays
    \/ Buffer_WaitComplete
    \/ Buffer_RenderDMA_Swap
    \/ Buffer_RenderDMA_Start
    \/ Graphics_ClearOverlayQueues

Next ==
    \/ RenderStep
    \/ DMA_IRQHandler

Spec == Init /\ [][Next]_vars

(* ------------------------------------------------------------------ *)
(* The engine and the driver under a client's calls (SpecEngine)       *)
(* ------------------------------------------------------------------ *)
\* Lengths a client passes to SPI_DMA_StartTransfer.
ClientLengths == {0, 2, DMA_MAX_LENGTH, DMA_MAX_LENGTH + 1}

\* <<x, width>> of the bitmaps a client passes to ST7735_DrawBitmapDMA: a
\* band on the screen, one right of the screen, one of no width.
ClientBitmaps == {<<0, BUFFER_WIDTH>>, <<displayWidth, BUFFER_WIDTH>>, <<10, 0>>}

\* The client calls SPI_DMA_StartTransfer.
Client_StartTransfer ==
    /\ pc = "client"
    /\ calls < MaxCalls
    /\ \E data \in {"NULL", "client"}, length \in ClientLengths,
          cb \in {NULL, calls + 1} :
         /\ SPI_DMA_StartTransfer(data, length, cb,
                                  [image |-> "client", side |-> 0 - 1, cb |-> cb])
         /\ lastCall' = [op |-> "SPI_DMA_StartTransfer", id |-> calls + 1,
                         cb |-> cb, data |-> data, length |-> length,
                         busy |-> dmaBusy]
    /\ calls' = calls + 1
    /\ UNCHANGED <<overlayVars,
                   driverVars, bufferVars, sceneVars, loopVars, completed,
                   invoked, events, zVars>>

\* The client calls ST7735_DrawBitmapDMA with the DMA buffer.
Client_DrawBitmapDMA ==
    /\ pc = "client"
    /\ calls < MaxCalls
    /\ \E bm \in ClientBitmaps, cb \in {NULL, calls + 1} :
         /\ ST7735_DrawBitmapDMA(bm[1], BUFFER_HEIGHT - 1, DmaBuffer, bm[2],
                                 BUFFER_HEIGHT, cb)
         /\ lastCall' = [op |-> "ST7735_DrawBitmapDMA", id |-> calls + 1,
                         cb |-> cb, data |-> DmaBuffer,
                         length |-> (bm[2] * BUFFER_HEIGHT) * 2,
                         busy |-> dmaBusy, x |-> bm[1], w |-> bm[2]]
    /\ calls' = calls + 1
    /\ UNCHANGED <<overlayVars,
                   bufferVars, sceneVars, loopVars, completed, invoked,
                   events, zVars>>

\* The client calls Buffer_RenderDMA(side, callback): the swap, then the
\* transfer of the buffer that now has the DMA role.
Client_RenderDMA ==
    /\ pc = "client"
    /\ calls < MaxCalls
    /\ Buffer_RenderBuffer' = Buffer_Swap(Buffer_RenderBuffer, DmaBuffer)[1]
    /\ DmaBuffer' = Buffer_Swap(Buffer_RenderBuffer, DmaBuffer)[2]
    /\ \E sd \in {0, NUM_BANDS - 1}, cb \in {NULL, calls + 1} :
         /\ ST7735_DrawBitmapDMA(sd * BUFFER_WIDTH, BUFFER_HEIGHT - 1,
                                 Buffer_Swap(Buffer_RenderBuffer, DmaBuffer)[2],
                                 BUFFER_WIDTH, BUFFER_HEIGHT, cb)
         /\ lastCall' = [op |-> "Buffer_RenderDMA", id |-> calls + 1,
                         cb |-> cb,
                         data |-> Buffer_Swap(Buffer_RenderBuffer, DmaBuffer)[2],
                         length |-> (BUFFER_WIDTH * BUFFER_HEIGHT) * 2,
                         busy |-> dmaBusy]
    /\ calls' = calls + 1
    /\ UNCHANGED <<overlayVars,
                   pixels, sceneVars, loopVars, completed, invoked, events,
                   zVars>>

InitClient ==
    /\ InitEngine
    /\ InitGraphics
    /\ InitScene
    /\ pc = "client"
    /\ worldMap = ClosedMap
    /\ CameraState = InitialCamera
    /\ Sprites_Array = NoSprites
    /\ Sprites_Count = 0

NextEngine ==
    \/ Client_StartTransfer
    \/ Client_DrawBitmapDMA
    \/ Client_RenderDMA
    \/ DMA_IRQHandler

SpecEngine == InitClient /\ [][NextEngine]_vars

\* A step that is a call of SPI_DMA_StartTransfer.
StartTransferCall ==
    calls' = calls + 1 /\ lastCall'.op = "SPI_DMA_StartTransfer"

\* What C4 says of one call: refused with nothing changed, or accepted.
C4_Call ==
    StartTransferCall =>
        IF \/ dmaBusy # 0
           \/ lastCall'.data = "NULL"
           \/ lastCall'.length = 0
           \/ lastCall'.length > 65535
        THEN /\ ret' = 0 - 1
             /\ UNCHANGED <<dmaBusy, userCallback, DMASA, DMASZ, xfer, started>>
        ELSE /\ ret' = 0
             /\ dmaBusy' = 1
             /\ xfer'.id = Len(started) + 1
             /\ userCallback' = lastCall'.cb
             /\ DMASA' = lastCall'.data
             /\ DMASZ' = lastCall'.length

\* C4: SPI_DMA_StartTransfer returns -1 and changes nothing when a transfer
\* is in flight, data is null, length is 0 or length > 65535; otherwise it
\* returns 0 and the engine is busy until the completion interrupt; at most
\* one transfer is in flight.
C4_StartTransferContract ==
    /\ [][C4_Call]_vars
    /\ [][(dmaBusy = 1 /\ dmaBusy' = 0) => (InFlight /\ ~InFlight')]_vars
    /\ [](InFlight <=> dmaBusy = 1)
    /\ [](Len(started) - Cardinality(completed) =
             (IF InFlight THEN 1 ELSE 0))

\* A call with good parameters and a callback was refused because the
\* transfer of an earlier call is still in flight, with its registration.
C4_Witness ==
    /\ lastCall.op = "SPI_DMA_StartTransfer"
    /\ lastCall.busy = 1 /\ lastCall.data = "client" /\ lastCall.length = 2
    /\ lastCall.cb # NULL
    /\ ret = 0 - 1
    /\ InFlight /\ dmaBusy = 1
    /\ userCallback # NULL /\ userCallback # lastCall.cb

\* C5: a callback is invoked at most once; every callback invoked is the one
\* of a transfer that was started and has completed (never one of a refused
\* start); and a started transfer with a callback has completed exactly
\* when its callback has been invoked.
C5_CallbackExactlyOnce ==
    /\ \A i, j \in 1 .. Len(invoked) : invoked[i] = invoked[j] => i = j
    /\ \A i \in 1 .. Len(invoked) :
         \E k \in 1 .. Len(started) :
             started[k].cb = invoked[i] /\ k \in completed
    /\ \A k \in 1 .. Len(started) :
         started[k].cb # NULL =>
             (k \in completed <=> \E i \in 1 .. Len(invoked) :
                                      invoked[i] = started[k].cb)

\* The callbacks of a direct transfer and of a bitmap transfer have each
\* fired once, a refused call with a callback lies between them, and a
\* further interrupt-completed transfer without callback fired nothing.
C5_Witness ==
    /\ Len(invoked) = 2
    /\ Len(started) = 2
    /\ completed = {1, 2}
    /\ calls = 3
    /\ {started[1].image, started[2].image} = {"client", DmaBuffer}

(* ------------------------------------------------------------------ *)
(* CastRays alone, over maps and cameras (SpecDDA)                     *)
(* ------------------------------------------------------------------ *)
\* Cameras for CastRays: the initial one; one a hair right of a grid line,
\* where a ray direction component of a few units makes deltaDist the
\* largest value; one outside the map looking along its diagonal; one in a
\* corner looking at the corner.
DDACameras ==
    {InitialCamera,
     CameraAt(12 * FIXED_ONE + 1, 12 * FIXED_ONE + 32768, 0, -FIXED_ONE),
     CameraAt(-32768, 32768, 46341, 46341),
     CameraAt(FIXED_ONE + 32768, FIXED_ONE + 32768, -46341, -46341),
     CameraAt(FIXED_ONE + 32768, FIXED_ONE + 32768, 46341, 46341)}

\* CastRays(side) is called after clearZBuffer and Buffer_Clear.
InitDDA ==
    /\ InitEngine
    /\ InitGraphics
    /\ ZBuffer = [c \in Columns |-> FIXED_LARGE]
    /\ zWrites = [c \in Columns |-> <<>>]
    /\ zReads = {}
    /\ trav = [c \in Columns |-> "none"]
    /\ mapRead = NoRead
    /\ ray = NoRay
    /\ frame = 1
    /\ side \in 0 .. (NUM_BANDS - 1)
    /\ x = BandStart(side)
    /\ pc = "col"
    /\ worldMap \in {ClosedMap, GapMap, OpenMap}
    /\ CameraState \in DDACameras
    /\ Sprites_Array = NoSprites
    /\ Sprites_Count = 0

NextDDA ==
    \/ CastRays_Column
    \/ DDA_Step
    \/ CastRays_Finish

SpecDDA == InitDDA /\ [][NextDDA]_vars

\* C9: whatever the map (also one with an open perimeter) and the camera,
\* the DDA loop of a column takes at most MAP_WIDTH + MAP_HEIGHT steps, and
\* every read of worldMap, in the loop and for the texture number, has its
\* row and column in 0 .. 23.
C9_DDABounded ==
    /\ ray.nSteps <= MAP_WIDTH + MAP_HEIGHT
    /\ ray.nSteps + ray.maxSteps = (IF pc = "dda" THEN MAP_WIDTH + MAP_HEIGHT
                                    ELSE 0)
    /\ mapRead[1] \in 0 .. (MAP_HEIGHT - 1)
    /\ mapRead[2] \in 0 .. (MAP_WIDTH - 1)

\* On the open map a ray from outside crossed the map, reading only cells
\* of the map, and left it with its last budgeted step.
C9_Witness ==
    /\ worldMap = OpenMap
    /\ pc = "dda"
    /\ ray.hit = 0 - 1
    /\ ray.nSteps = MAP_WIDTH + MAP_HEIGHT
    /\ ray.maxSteps = 0
    /\ mapRead # NoRead

(* ------------------------------------------------------------------ *)
(* Properties of the render loop (Spec)                                *)
(* ------------------------------------------------------------------ *)
\* The band whose pixels the render buffer holds is complete.
BandCast(k) ==
    \/ side > k
    \/ side = k /\ pc \in {"Sprites", "Overlays", "Wait", "RenderDMA",
                           "RenderDMA_start"}

\* The render buffer holds the pixels of the band being rendered.
HoldsBand == pc \in {"col", "dda", "Sprites", "Overlays", "Wait", "RenderDMA"}

\* C1: while a transfer is in flight, the buffer it was started on is not
\* the buffer the render loop writes (Buffer_Clear, CastRays, sprites), and
\* its pixels are still the ones handed to the transfer; this includes band
\* 0 of a frame with band 3 of the previous frame in flight.
C1_InFlightBufferNotWritten ==
    InFlight =>
        /\ xfer.image # Buffer_RenderBuffer
        /\ xfer.image = txBuffer.image
        /\ pixels[xfer.image] = txBuffer.content

\* Band 0 of the second frame is being drawn while band 3 of the first
\* frame is in flight.
C1_Witness ==
    /\ frame = 2 /\ side = 0 /\ pc = "dda" /\ x > 0
    /\ InFlight /\ xfer.side = 3
    /\ pixels[Buffer_RenderBuffer][0].wall # <<>>

\* C2: the transfers of a frame are started for bands 0, 1, 2, 3 in that
\* order, each once, and every transfer but the last started has completed
\* (band K+1 is not started before band K's transfer completed).
C2_BandOrder ==
    /\ \A i \in 1 .. Len(started) :
         /\ started[i].side = (i - 1) % NUM_BANDS
         /\ started[i].frame = ((i - 1) \div NUM_BANDS) + 1
         /\ (i < Len(started) => i \in completed)
    /\ (frame >= 1 => Len(started) = NUM_BANDS * (frame - 1) + side)

\* A frame has ended with its four transfers started, three completed.
C2_Witness ==
    /\ frame = 1 /\ pc = "idle"
    /\ Len(started) = NUM_BANDS
    /\ completed = 1 .. (NUM_BANDS - 1)

\* C3 (as the code has it): for each band the roles are swapped exactly
\* once, with no transfer in flight, immediately before the transfer of
\* that band is issued (swap, then start); the transfer is issued on the
\* buffer rendered before the swap, which after the swap has the DMA role.
C3_SwapThenStart ==
    /\ \A i \in 1 .. Len(events) :
         /\ events[i].ev = "start" =>
              /\ i > 1
              /\ events[i - 1].ev = "swap"
              /\ events[i - 1].side = events[i].side
              /\ events[i - 1].buf = events[i].buf
         /\ events[i].ev = "swap" =>
              /\ events[i].val = 0
              /\ \A j \in 1 .. Len(events) :
                   (events[j].ev = "swap" /\ events[j].side = events[i].side)
                       => j = i
    /\ \A k \in 0 .. (NUM_BANDS - 1) :
         (frame >= 1 /\ (side > k \/ (side = k /\ pc = "RenderDMA_start")))
             => \E i \in 1 .. Len(events) :
                   events[i].ev = "swap" /\ events[i].side = k
    /\ (InFlight => xfer.image = DmaBuffer)
    /\ (pc = "RenderDMA_start" =>
           events[Len(events)].buf = DmaBuffer /\ ~InFlight)

\* Band 2 has been swapped and its transfer issued on the rendered buffer.
C3_Witness ==
    /\ side = 3 /\ InFlight /\ xfer.side = 2
    /\ Len(events) = 7
    /\ events[6].ev = "swap" /\ events[7].ev = "start"
    /\ events[7].buf = xfer.image

\* C3 as stated: every swap of a band comes after the start of that band's
\* transfer (start, then swap).
C3_StartThenSwap ==
    \A i \in 1 .. Len(events) :
        events[i].ev = "swap" =>
            \E j \in 1 .. (i - 1) :
                events[j].ev = "start" /\ events[j].side = events[i].side

\* C7: in every frame ZBuffer is reset to FIXED_LARGE once, for all 160
\* columns, before band 0 is cast, and not between the bands: a column
\* holds the sentinel until CastRays writes it and the written depth from
\* then on.
C7_ZBufferResetOncePerFrame ==
    frame >= 1 =>
        /\ events[1].ev = "clearZ"
        /\ \A i \in 2 .. Len(events) : events[i].ev # "clearZ"
        /\ \A c \in Columns :
             ZBuffer[c] = IF zWrites[c] = <<>> THEN FIXED_LARGE
                          ELSE zWrites[c][Len(zWrites[c])].val
        /\ (side = 0 /\ pc = "Buffer_Clear" =>
               \A c \in Columns : ZBuffer[c] = FIXED_LARGE)

\* In the second frame, band 3 is reached with the depth of band 0 kept and
\* the last column still at the sentinel.
C7_Witness ==
    /\ frame = 2 /\ side = 3 /\ pc = "col"
    /\ ZBuffer[0] # FIXED_LARGE
    /\ ZBuffer[SCREEN_WIDTH - 1] = FIXED_LARGE

\* C8: after the reset each ZBuffer entry is written at most once per
\* frame, by CastRays of the band that owns the column (column / 40), and
\* holds that value (nothing else writes it); the sprite stage of band K
\* reads only entries of band K.
C8_ZBufferOwnership ==
    /\ \A c \in Columns :
         /\ Len(zWrites[c]) <= 1
         /\ \A i \in 1 .. Len(zWrites[c]) :
              /\ zWrites[c][i].by = "CastRays"
              /\ zWrites[c][i].side = c \div BUFFER_WIDTH
              /\ ZBuffer[c] = zWrites[c][i].val
    /\ \A r \in zReads : r[2] \div BUFFER_WIDTH = r[1]

\* Sprites have read ZBuffer in two bands, up to the edge of a band, after
\* CastRays wrote it, and a sprite was drawn.
C8_Witness ==
    /\ \E r1, r2 \in zReads :
         /\ r1[1] # r2[1]
         /\ r1[2] % BUFFER_WIDTH = BUFFER_WIDTH - 1
    /\ \A r \in zReads : Len(zWrites[r[2]]) = 1
    /\ pc = "Overlays"
    /\ \E b \in BufCols : pixels[Buffer_RenderBuffer][b].sprites # <<>>

\* C10: a column whose traversal left the map or used up its budget gets no
\* wall pixel and keeps the sentinel in ZBuffer; the columns after it are
\* still processed, and those that end on a wall get their depth.
C10_SkippedColumn ==
    /\ \A c \in Columns :
         /\ trav[c] \in {"left", "budget"} =>
              /\ zWrites[c] = <<>>
              /\ ZBuffer[c] = FIXED_LARGE
              /\ (HoldsBand /\ c \div BUFFER_WIDTH = side =>
                    pixels[Buffer_RenderBuffer][c % BUFFER_WIDTH].wall = <<>>)
         /\ trav[c] = "wall" => zWrites[c] # <<>>
    /\ \A k \in 0 .. (NUM_BANDS - 1) :
         (frame >= 1 /\ BandCast(k)) =>
             \A c \in BandStart(k) .. (BandEnd(k) - 1) : trav[c] # "none"

\* A band is complete in which a column left the map and a later column
\* hit a wall and was drawn.
C10_Witness ==
    /\ pc = "Sprites"
    /\ \E c, d \in BandStart(side) .. (BandEnd(side) - 1) :
         /\ c < d
         /\ trav[c] = "left" /\ ZBuffer[c] = FIXED_LARGE
         /\ pixels[Buffer_RenderBuffer][c % BUFFER_WIDTH].wall = <<>>
         /\ trav[d] = "wall" /\ ZBuffer[d] # FIXED_LARGE
         /\ pixels[Buffer_RenderBuffer][d % BUFFER_WIDTH].wall # <<>>

(* ------------------------------------------------------------------ *)
(* The render loop when every transfer completes (SpecLive)            *)
(* ------------------------------------------------------------------ *)
\* The processor keeps executing the loop, and the completion interrupt of
\* a transfer in flight eventually fires. The scenes are the ones on the
\* map with gaps and without sprites: the sprite stage then only passes
\* control on.
InitLive ==
    /\ Init
    /\ worldMap = GapMap
    /\ Sprites_Array = NoSprites

SpecLive ==
    /\ InitLive
    /\ [][Next]_vars
    /\ WF_vars(RenderStep)
    /\ WF_vars(DMA_IRQHandler)

\* Every transfer start recorded in the frame returned 0.
AllStartsSucceeded ==
    \A i \in 1 .. Len(events) : events[i].ev = "start" => events[i].val = 0

\* Inside RayCast3D_Render, not in the wait on a busy engine.
Running == pc # "idle" /\ ~(pc = "Wait" /\ dmaBusy # 0)

\* C6: if every started transfer eventually completes, every call of
\* RayCast3D_Render returns; the loop can always take its next step except
\* in the wait before a start while the engine is busy; and each of the
\* transfer starts returns 0.
C6_RenderTerminates ==
    /\ []AllStartsSucceeded
    /\ [](Running => ENABLED RenderStep)
    /\ [](pc = "idle" => Len(started) = NUM_BANDS * frame)
    /\ ((pc # "idle") ~> (pc = "idle"))

\* A second call has returned with all four starts of the frame at 0.
C6_Witness ==
    /\ frame >= 2 /\ pc = "idle"
    /\ Len(started) = NUM_BANDS * frame
    /\ Len(events) = 1 + 2 * NUM_BANDS
    /\ AllStartsSucceeded

(* ------------------------------------------------------------------ *)
(* Sprite occlusion against ZBuffer                                    *)
(* ------------------------------------------------------------------ *)
\* The slots Sprites_RenderAll hands to Sprites_RenderOne.
RenderedSlots ==
    {i \in Slots : Sprites_Array[i].active # 0 /\ Sprites_Array[i].width # 0}

\* The slots pass 2 has drawn over screen column c of the band just rendered.
DrawnOver(c) ==
    {pixels[Buffer_RenderBuffer][c - side * BUFFER_WIDTH].sprites[k] :
        k \in 1 .. Len(pixels[Buffer_RenderBuffer][c - side * BUFFER_WIDTH].sprites)}

\* What the sprite stage did with slot i on the columns of its span that lie
\* in the band: a column whose wall is not farther than the sprite is left
\* alone, any other is drawn; the sentinel is farther than any sprite that
\* has a span.
OcclusionOf(i, r) ==
    \A c \in r.reads :
        /\ r.depth >= ZBuffer[c] => i \notin DrawnOver(c)
        /\ (r.depth < ZBuffer[c] /\ r.rows[1] < r.rows[2]) => i \in DrawnOver(c)
        /\ ZBuffer[c] = FIXED_LARGE => r.depth < ZBuffer[c]

\* C11: once the sprite stage of a band is done, for every sprite and every
\* column of the band inside the sprite's horizontal span, the sprite has
\* changed nothing where its depth is greater than or equal to ZBuffer[C]
\* and has been drawn where its depth is strictly less; a column still at
\* the sentinel FIXED_LARGE never occludes.
C11_SpriteOcclusion ==
    pc = "Overlays" =>
        \A i \in RenderedSlots :
            OcclusionOf(i, Sprites_RenderOne(Sprites_Array[i], side))

\* One sprite is hidden by a wall on one column of its span and drawn on
\* another column of the same band, whose ray left the map through the gap
\* (ZBuffer still at the sentinel).
C11_Witness ==
    /\ pc = "Overlays"
    /\ \E i \in RenderedSlots :
         LET r == Sprites_RenderOne(Sprites_Array[i], side)
         IN  /\ \E c \in r.reads : r.depth >= ZBuffer[c] /\ i \notin DrawnOver(c)
             /\ \E c \in r.reads : /\ ZBuffer[c] = FIXED_LARGE
                                    /\ trav[c] = "left"
                                    /\ i \in DrawnOver(c)

(* ------------------------------------------------------------------ *)
(* sprites.c: the slot table and its management functions              *)
(* ------------------------------------------------------------------ *)
\* Management calls a client makes per behaviour (SpecSprites).
MaxSpriteCalls == 3

\* The value a uint8_t function returns for the int v of its return
\* statement.
Uint8(v) == v % 256

\* A pointer to slot i (&Sprites_Array[i]): non-null, one per slot.
AddressOf(i) == i + 1

\* The loop of Sprite_Add: the first inactive slot, -1 when there is none.
FirstFree_Last(tab) ==
    IF \A i \in Slots : tab[i].active # 0 THEN 0 - 1
    ELSE CHOOSE i \in Slots :
           tab[i].active = 0 /\ \A j \in Slots : j > i => tab[j].active # 0

FirstFree(tab) ==
    IF \A i \in Slots : tab[i].active # 0 THEN 0 - 1
    ELSE CHOOSE i \in Slots :
           tab[i].active = 0 /\ \A j \in Slots : j < i => tab[j].active # 0

\* The slot Sprite_Add fills in.
AddedSlot(px, py, image, w, h, sc, transparent) ==
    [active |-> 1, x |-> px, y |-> py, width |-> w, height |-> h,
     scale |-> sc, image |-> image, transparent |-> transparent, type |-> 0]

\* The table after Sprite_Add with these arguments.
TableAfterAdd(tab, slot) ==
    IF FirstFree(tab) < 0 THEN tab ELSE [tab EXCEPT ![FirstFree(tab)] = slot]

\* The index test of Sprite_Remove, Sprite_Move, Sprite_Scale and Sprite_Get.
BadIndex_OnlyNegative(index) == index < 0

BadIndex(index) == index < 0 \/ index >= SPRITES_MAX_COUNT

\* The second early return of the same functions.
Inactive_Ignored(index) == FALSE

Inactive(index) == Sprites_Array[index].active = 0

\* What Sprite_Remove does to the slot it removes.
RemovedSlot_Erased(slot) == EmptySlot

RemovedSlot(slot) == [slot EXCEPT !.active = 0]

\* The count Sprite_Add leaves when it has claimed a slot.
CountAfterAdd_Same(n) == n

CountAfterAdd(n) == n + 1

\* What the management functions leave alone.
spriteFrame == <<overlayVars, engineVars, driverVars, bufferVars, worldMap,
                 CameraState, loopVars, xferVars, events, zVars>>

\* The record of a management call: the function, its index argument (-1
\* when it has none), the slot data passed, and the call made before it.
CallRecord(op, index, slot) ==
    [op |-> op, index |-> index, slot |-> slot, prevOp |-> lastCall.op,
     prevIndex |-> IF lastCall.op = "none" THEN 0 - 1 ELSE lastCall.index]

\* Sprite_Add(x, y, image, width, height, scale, transparent); the caller
\* receives the int of the return statement converted to uint8_t.
Sprite_Add(px, py, image, w, h, sc, transparent) ==
    /\ pc = "sprites" /\ calls < MaxSpriteCalls
    /\ Sprites_Array' =
         TableAfterAdd(Sprites_Array,
                       AddedSlot(px, py, image, w, h, sc, transparent))
    /\ Sprites_Count' = IF FirstFree(Sprites_Array) < 0 THEN Sprites_Count
                        ELSE CountAfterAdd(Sprites_Count)
    /\ ret' = Uint8(FirstFree(Sprites_Array))
    /\ lastCall' = CallRecord("Sprite_Add", 0 - 1,
                             AddedSlot(px, py, image, w, h, sc, transparent))
    /\ calls' = calls + 1
    /\ UNCHANGED spriteFrame

\* Sprite_Clear
Sprite_Clear ==
    /\ pc = "sprites" /\ calls < MaxSpriteCalls
    /\ Sprites_Array' = [i \in Slots |-> [Sprites_Array[i] EXCEPT !.active = 0]]
    /\ Sprites_Count' = 0
    /\ lastCall' = CallRecord("Sprite_Clear", 0 - 1,
                             EmptySlot)
    /\ calls' = calls + 1
    /\ UNCHANGED <<spriteFrame, ret>>

\* Sprite_Remove(index)
Sprite_Remove(index) ==
    /\ pc = "sprites" /\ calls < MaxSpriteCalls
    /\ IF BadIndex(index) THEN UNCHANGED <<Sprites_Array, Sprites_Count>>
       ELSE IF Inactive(index) THEN UNCHANGED <<Sprites_Array, Sprites_Count>>
       ELSE /\ Sprites_Array' =
                 [Sprites_Array EXCEPT ![index] = RemovedSlot(@)]
            /\ Sprites_Count' = Sprites_Count - 1
    /\ lastCall' = CallRecord("Sprite_Remove", index,
                             EmptySlot)
    /\ calls' = calls + 1
    /\ UNCHANGED <<spriteFrame, ret>>

\* Sprite_Move(index, x, y)
Sprite_Move(index, px, py) ==
    /\ pc = "sprites" /\ calls < MaxSpriteCalls
    /\ IF BadIndex(index) THEN UNCHANGED Sprites_Array
       ELSE IF Inactive(index) THEN UNCHANGED Sprites_Array
       ELSE Sprites_Array' =
              [Sprites_Array EXCEPT ![index].x = px, ![index].y = py]
    /\ lastCall' = CallRecord("Sprite_Move", index,
                             [EmptySlot EXCEPT !.x = px, !.y = py])
    /\ calls' = calls + 1
    /\ UNCHANGED <<spriteFrame, Sprites_Count, ret>>

\* Sprite_Scale(index, scale)
Sprite_Scale(index, sc) ==
    /\ pc = "sprites" /\ calls < MaxSpriteCalls
    /\ IF BadIndex(index) THEN UNCHANGED Sprites_Array
       ELSE IF Inactive(index) THEN UNCHANGED Sprites_Array
       ELSE Sprites_Array' = [Sprites_Array EXCEPT ![index].scale = sc]
    /\ lastCall' = CallRecord("Sprite_Scale", index,
                             [EmptySlot EXCEPT !.scale = sc])
    /\ calls' = calls + 1
    /\ UNCHANGED <<spriteFrame, Sprites_Count, ret>>

\* Sprite_Get(index): NULL, or the address of the slot.
Sprite_Get(index) ==
    /\ pc = "sprites" /\ calls < MaxSpriteCalls
    /\ ret' = IF BadIndex(index) THEN NULL
              ELSE IF Inactive(index) THEN NULL
              ELSE AddressOf(index)
    /\ lastCall' = CallRecord("Sprite_Get", index,
                             EmptySlot)
    /\ calls' = calls + 1
    /\ UNCHANGED <<spriteFrame, Sprites_Array, Sprites_Count>>

\* Sprites_GetCount
Sprites_GetCount ==
    /\ pc = "sprites" /\ calls < MaxSpriteCalls
    /\ ret' = Sprites_Count
    /\ lastCall' = CallRecord("Sprites_GetCount", 0 - 1,
                             EmptySlot)
    /\ calls' = calls + 1
    /\ UNCHANGED <<spriteFrame, Sprites_Array, Sprites_Count>>

\* The arguments the client calls are made with: two sprites to add, and
\* indices below, inside (first, middle, last slot) and above the table.
ClientSprites == {<<24, 18, 1, 16, 16, 8, 0>>, <<30, 9, 2, 32, 32, 4, 31>>}
ClientIndices == {0 - 1, 0, 5, SPRITES_MAX_COUNT - 1, SPRITES_MAX_COUNT}

\* The table and the count after n consecutive Sprite_Add calls on the
\* initial (all zero) table.
RECURSIVE AfterAdds(_)
AfterAdds(n) ==
    IF n = 0 THEN NoSprites
    ELSE TableAfterAdd(AfterAdds(n - 1),
                       AddedSlot(2 * n, 3, 1 + (n % 2), 16, 16, 8, 0))

InitSprites ==
    /\ InitEngine
    /\ InitGraphics
    /\ InitScene
    /\ pc = "sprites"
    /\ worldMap = ClosedMap
    /\ CameraState = InitialCamera
    /\ \E n \in {0, SPRITES_MAX_COUNT - 1, SPRITES_MAX_COUNT} :
         /\ Sprites_Array = AfterAdds(n)
         /\ Sprites_Count = n

NextSprites ==
    \/ \E a \in ClientSprites :
         Sprite_Add(a[1], a[2], a[3], a[4], a[5], a[6], a[7])
    \/ Sprite_Clear
    \/ \E i \in ClientIndices : Sprite_Remove(i)
    \/ \E i \in ClientIndices : Sprite_Move(i, 7, 9)
    \/ \E i \in ClientIndices : Sprite_Scale(i, 4)
    \/ \E i \in ClientIndices : Sprite_Get(i)
    \/ Sprites_GetCount

SpecSprites == InitSprites /\ [][NextSprites]_vars

\* The step is a call of the management function op.
SpriteCall(op) == calls' = calls + 1 /\ lastCall'.op = op

\* The slot has its active flag set.
IsActive(tab, i) == tab[i].active # 0

\* Slot j is inactive and every slot below it is active.
LowestInactive(j) ==
    /\ ~IsActive(Sprites_Array, j)
    /\ \A k \in Slots : k < j => IsActive(Sprites_Array, k)

C12_Step ==
    SpriteCall("Sprite_Add") =>
        /\ \A j \in Slots :
             LowestInactive(j) =>
                 /\ Sprites_Array'[j] = lastCall'.slot
                 /\ Sprites_Array'[j].active = 1
                 /\ ret' = j
        /\ ( /\ lastCall.op = "Sprite_Remove"
             /\ lastCall.index \in Slots
             /\ Sprites_Count = SPRITES_MAX_COUNT - 1
             /\ ~IsActive(Sprites_Array, lastCall.index) )
           => ret' = lastCall.index

\* C12: Sprite_Add stores the new sprite in the lowest-index inactive slot,
\* marks it active and returns that index; after one slot of a full table
\* has been removed, the next Sprite_Add returns that slot's index.
C12_AddClaimsFirstFree == [][C12_Step]_vars

\* Slot 5 of the full table was removed and the next Sprite_Add put its
\* sprite there and returned 5.
C12_Witness ==
    /\ pc = "sprites" /\ calls = 2
    /\ lastCall.op = "Sprite_Add" /\ lastCall.prevOp = "Sprite_Remove"
    /\ lastCall.prevIndex = 5
    /\ ret = 5
    /\ Sprites_Array[5] = lastCall.slot
    /\ Sprites_Array[5] # AfterAdds(SPRITES_MAX_COUNT)[5]
    /\ Sprites_Count = SPRITES_MAX_COUNT

\* Every slot is active.
TableFull == \A i \in Slots : IsActive(Sprites_Array, i)

C13_Step ==
    (SpriteCall("Sprite_Add") /\ TableFull) =>
        /\ ret' = 0 - 1
        /\ UNCHANGED <<Sprites_Array, Sprites_Count>>

\* C13: with all 16 slots active Sprite_Add returns -1 to its caller and
\* leaves every slot and the count unchanged.
C13_FullTableAddReturnsMinusOne == [][C13_Step]_vars

C13_FailedAdd ==
    (SpriteCall("Sprite_Add") /\ TableFull) =>
        /\ ret' = 255
        /\ UNCHANGED <<Sprites_Array, Sprites_Count>>

\* What the code does on a full table: the caller receives 255, the -1 of
\* the return statement converted to uint8_t; the table and the count are
\* unchanged; an add on a table that is not full returns an index 0..15.
C13_FullTableAddReturns255 ==
    [][C13_FailedAdd /\ ((SpriteCall("Sprite_Add") /\ ~TableFull) => ret' \in Slots)]_vars

\* The 17th consecutive add on the empty table has returned.
C13_Witness ==
    /\ pc = "sprites" /\ calls = 1
    /\ lastCall.op = "Sprite_Add"
    /\ Sprites_Array = AfterAdds(SPRITES_MAX_COUNT)
    /\ Sprites_Count = SPRITES_MAX_COUNT
    /\ ret = 255

\* The other slots are as they were.
OthersUnchanged(i) ==
    \A j \in Slots : j # i => Sprites_Array'[j] = Sprites_Array[j]

C14_Step ==
    /\ \A op \in {"Sprite_Remove", "Sprite_Move", "Sprite_Scale"} :
         SpriteCall(op) => OthersUnchanged(lastCall'.index)
    /\ SpriteCall("Sprite_Add") =>
         /\ OthersUnchanged(ret')
         /\ \A j \in Slots : IsActive(Sprites_Array, j) =>
                Sprites_Array'[j] = Sprites_Array[j]
    /\ (SpriteCall("Sprite_Remove") /\ lastCall'.index \in Slots) =>
         /\ Sprites_Array'[lastCall'.index] =
              [Sprites_Array[lastCall'.index] EXCEPT !.active = 0]
         /\ \A j \in Slots : IsActive(Sprites_Array', j) => j # lastCall'.index
    /\ \A j \in Slots :
         ( /\ IsActive(Sprites_Array, j)
           /\ ~SpriteCall("Sprite_Clear")
           /\ ~(lastCall'.op \in {"Sprite_Remove", "Sprite_Move", "Sprite_Scale"}
                /\ lastCall'.index = j) )
         => Sprites_Array'[j] = Sprites_Array[j]
    /\ \A j \in Slots :
         (SpriteCall("Sprite_Get") /\ lastCall'.index = j
          /\ IsActive(Sprites_Array, j)) => ret' = AddressOf(j)

\* C14: Sprite_Remove(i), Sprite_Move(i, ..), Sprite_Scale(i, ..) change no
\* slot other than i, Sprite_Add changes only the slot it claims (never an
\* active one), so an active slot keeps its data, and Sprite_Get returns
\* it, until that slot itself is removed, moved, rescaled or the table is
\* cleared; Sprite_Remove only clears the active flag of its slot.
C14_SlotsStable == [][C14_Step]_vars

\* Slot 0 of the full table has been removed and another sprite added in
\* its place: slot 0 holds the new sprite, every other slot what the 16
\* adds put there.
C14_Witness ==
    /\ pc = "sprites" /\ calls = 2
    /\ lastCall.op = "Sprite_Add" /\ lastCall.prevOp = "Sprite_Remove"
    /\ lastCall.prevIndex = 0 /\ ret = 0
    /\ Sprites_Array[0] = lastCall.slot
    /\ \A j \in Slots \ {0} :
         Sprites_Array[j] = AfterAdds(SPRITES_MAX_COUNT)[j]

\* The index names no active slot.
InvalidIndex(index) ==
    ~(index \in Slots) \/ ~IsActive(Sprites_Array, index)

C15_Step ==
    /\ \A op \in {"Sprite_Remove", "Sprite_Move", "Sprite_Scale"} :
         (SpriteCall(op) /\ InvalidIndex(lastCall'.index)) =>
             UNCHANGED <<Sprites_Array, Sprites_Count>>
    /\ (SpriteCall("Sprite_Get") /\ InvalidIndex(lastCall'.index)) =>
         /\ ret' = NULL
         /\ UNCHANGED <<Sprites_Array, Sprites_Count>>

\* C15: Sprite_Remove, Sprite_Move and Sprite_Scale with an index outside
\* 0..15 or of an inactive slot leave the table and the count unchanged,
\* and Sprite_Get on such an index returns NULL.
C15_InvalidIndexNoOp == [][C15_Step]_vars

\* Slot 5 of the full table has been removed twice: the count went down
\* once.
C15_Witness ==
    /\ pc = "sprites" /\ calls = 2
    /\ lastCall.op = "Sprite_Remove" /\ lastCall.index = 5
    /\ lastCall.prevOp = "Sprite_Remove" /\ lastCall.prevIndex = 5
    /\ Sprites_Count = SPRITES_MAX_COUNT - 1
    /\ Sprites_Array =
         [AfterAdds(SPRITES_MAX_COUNT) EXCEPT ![5].active = 0]

\* C16: after any sequence of management calls Sprites_Count, which is what
\* Sprites_GetCount returns, is the number of slots whose active flag is
\* set and lies in 0..16; after Sprite_Clear it is 0 and every slot is
\* inactive.
C16_CountIsActiveSlots ==
    pc = "sprites" =>
        /\ Sprites_Count = Cardinality({i \in Slots : IsActive(Sprites_Array, i)})
        /\ Sprites_Count \in 0 .. SPRITES_MAX_COUNT
        /\ lastCall.op = "Sprites_GetCount" => ret = Sprites_Count
        /\ lastCall.op = "Sprite_Clear" =>
             Sprites_Count = 0 /\ \A i \in Slots : ~IsActive(Sprites_Array, i)

\* After a removal out of the full table, a removal with an index past the
\* table and a call of Sprites_GetCount, the count returned is 15.
C16_Witness ==
    /\ pc = "sprites" /\ calls = 3
    /\ lastCall.op = "Sprites_GetCount"
    /\ lastCall.prevOp = "Sprite_Remove"
    /\ lastCall.prevIndex = SPRITES_MAX_COUNT
    /\ ret = SPRITES_MAX_COUNT - 1
    /\ Cardinality({i \in Slots : IsActive(Sprites_Array, i)}) = ret

(* ------------------------------------------------------------------ *)
(* fixed.c: sine, cosine and square root                               *)
(* ------------------------------------------------------------------ *)
FIXED_2PI == 411775
FIXED_PI_HALF == 102944
SIN_TABLE_SIZE == 256
CAMERA_MIN_DIR_LENGTH == 655

\* fixed.c: sin_table, entry i at position i + 1.
sin_table ==
    <<0, 402, 804, 1206, 1608, 2010, 2412, 2814,
      3216, 3617, 4019, 4420, 4821, 5222, 5623, 6023,
      6424, 6824, 7224, 7623, 8022, 8421, 8820, 9218,
      9616, 10014, 10411, 10808, 11204, 11600, 11996, 12391,
      12785, 13180, 13573, 13966, 14359, 14751, 15143, 15534,
      15924, 16314, 16703, 17091, 17479, 17867, 18253, 18639,
      19024, 19409, 19792, 20175, 20557, 20939, 21320, 21699,
      22078, 22457, 22834, 23210, 23586, 23961, 24335, 24708,
      25080, 25451, 25821, 26190, 26558, 26925, 27291, 27656,
      28020, 28383, 28745, 29106, 29466, 29824, 30182, 30538,
      30893, 31248, 31600, 31952, 32303, 32652, 33000, 33347,
      33692, 34037, 34380, 34721, 35062, 35401, 35738, 36075,
      36410, 36744, 37076, 37407, 37736, 38064, 38391, 38716,
      39040, 39362, 39683, 40002, 40320, 40636, 40951, 41264,
      41576, 41886, 42194, 42501, 42806, 43110, 43412, 43713,
      44011, 44308, 44604, 44898, 45190, 45480, 45769, 46056,
      46341, 46624, 46906, 47186, 47464, 47741, 48015, 48288,
      48559, 48828, 49095, 49361, 49624, 49886, 50146, 50404,
      50660, 50914, 51166, 51417, 51665, 51911, 52156, 52398,
      52639, 52878, 53114, 53349, 53581, 53812, 54040, 54267,
      54491, 54714, 54934, 55152, 55368, 55582, 55794, 56004,
      56212, 56418, 56621, 56823, 57022, 57219, 57414, 57607,
      57798, 57986, 58172, 58356, 58538, 58718, 58896, 59071,
      59244, 59415, 59583, 59750, 59914, 60075, 60235, 60392,
      60547, 60700, 60851, 60999, 61145, 61288, 61429, 61568,
      61705, 61839, 61971, 62101, 62228, 62353, 62476, 62596,
      62714, 62830, 62943, 63054, 63162, 63268, 63372, 63473,
      63572, 63668, 63763, 63854, 63944, 64031, 64115, 64197,
      64277, 64354, 64429, 64501, 64571, 64639, 64704, 64766,
      64827, 64884, 64940, 64993, 65043, 65091, 65137, 65180,
      65220, 65259, 65294, 65328, 65358, 65387, 65413, 65436,
      65457, 65476, 65492, 65505, 65516, 65525, 65531, 65535>>

\* fixed.c fixed_sin: the angle is brought into [0, 2*PI) by the two loops,
\* then quadrant and table index.
fixed_sin_value(quadrant, index) ==
    IF quadrant = 0 THEN sin_table[index + 1]
    ELSE IF quadrant = 1 THEN sin_table[SIN_TABLE_SIZE - 1 - index + 1]
    ELSE IF quadrant = 2 THEN -sin_table[index + 1]
    ELSE -sin_table[SIN_TABLE_SIZE - 1 - index + 1]

fixed_sin_index(phase) ==
    LET index == (phase * (SIN_TABLE_SIZE - 1)) \div FIXED_PI_HALF
    IN  IF index >= SIN_TABLE_SIZE THEN SIN_TABLE_SIZE - 1 ELSE index

fixed_sin[angle \in Int] ==
    LET a == angle % FIXED_2PI
        quadrant == (a * 4) \div FIXED_2PI
    IN  fixed_sin_value(quadrant,
                        fixed_sin_index(a - quadrant * FIXED_PI_HALF))

\* fixed.c fixed_cos
fixed_cos[angle \in Int] == fixed_sin[angle + FIXED_PI_HALF]

\* One Newton-Raphson step for the square root of n: (g + n / g) >> 1.
NewtonStep[n \in Int, g \in Int] == (g + fixed_div[n, g]) \div 2

\* Four steps from the guess g.
Newton4(n, g) ==
    NewtonStep[n, NewtonStep[n, NewtonStep[n, NewtonStep[n, g]]]]

\* fixed.c fixed_sqrt: the coarse initial guess.
SqrtGuess(v) ==
    IF v >= 16 * FIXED_ONE THEN 4 * FIXED_ONE
    ELSE IF v >= 4 * FIXED_ONE THEN 2 * FIXED_ONE
    ELSE IF v >= FIXED_ONE THEN FIXED_ONE
    ELSE IF v >= 16384 THEN 32768
    ELSE 16384

\* fixed.c fixed_sqrt
fixed_sqrt[v \in Int] == IF v <= 0 THEN 0 ELSE Newton4(v, SqrtGuess(v))

(* ------------------------------------------------------------------ *)
(* camera.c: the camera control functions                              *)
(* ------------------------------------------------------------------ *)
\* Control calls a client makes per behaviour (SpecCamera).
MaxCameraCalls == 3
\* Rotations by an angle of TurnAngles before the 1-degree rotations
\* (SpecRotate).
MaxTurns == 1
\* Camera_Rotate calls counted per behaviour; further calls are made but
\* not counted (SpecRotate).
MaxRotations == 1000

\* FLOAT_TO_FIXED of the double m / 1000: the product with FIXED_ONE
\* truncated toward zero.
FLOAT_TO_FIXED_Milli(m) ==
    LET a == Abs(m)
        v == (a \div 1000) * FIXED_ONE + ((a % 1000) * FIXED_ONE) \div 1000
    IN  IF m < 0 THEN -v ELSE v

\* Camera_Rotate: FLOAT_TO_FIXED(-degrees * 3.14159265358979 / 180.0) for a
\* whole number of degrees (3.14159265358979 / 180 * 65536 = 1143.818978...).
DegreesToRadians(degrees) ==
    LET a == Abs(degrees)
        v == a * 1143 + (a * 818979) \div 1000000
    IN  IF degrees < 0 THEN v ELSE -v

\* The squared length of (dx, dy) as camera.c computes it.
LenSq(dx, dy) == fixed_mul[dx, dx] + fixed_mul[dy, dy]

\* Camera_SetDirection: the length found by four Newton-Raphson steps
\* started at lenSq itself.
SetDirectionLen(lenSq) == Newton4(lenSq, lenSq)

\* Camera_SetDirection: the direction stored for the input (fx, fy).
SetDirectionDir(fx, fy) ==
    IF LenSq(fx, fy) > 0 /\ SetDirectionLen(LenSq(fx, fy)) > CAMERA_MIN_DIR_LENGTH
    THEN <<fixed_div[fx, SetDirectionLen(LenSq(fx, fy))],
           fixed_div[fy, SetDirectionLen(LenSq(fx, fy))]>>
    ELSE <<CameraState.dirX, CameraState.dirY>>

\* Camera_Rotate: the rotated direction.
RotatedDir(dx, dy, cosA, sinA) ==
    <<fixed_mul[dx, cosA] - fixed_mul[dy, sinA],
      fixed_mul[dx, sinA] + fixed_mul[dy, cosA]>>

\* Camera_Rotate: the re-normalization of the rotated direction.
NormalizedDir_None(dx, dy) == <<dx, dy>>

NormalizedDir(dx, dy) ==
    IF LenSq(dx, dy) > 0 /\ LenSq(dx, dy) # FIXED_ONE
       /\ fixed_sqrt[LenSq(dx, dy)] > 0
    THEN <<fixed_div[dx, fixed_sqrt[LenSq(dx, dy)]],
           fixed_div[dy, fixed_sqrt[LenSq(dx, dy)]]>>
    ELSE <<dx, dy>>

\* The camera with direction d and the plane derived from it.
WithDirection(cam, d) ==
    [cam EXCEPT !.dirX = d[1], !.dirY = d[2],
                !.planeX = PlaneOf(d[1], d[2]).planeX,
                !.planeY = PlaneOf(d[1], d[2]).planeY]

\* Camera_Move: the position moved to.
Camera_MoveTarget_Collide(fwd, str) ==
    LET nx == CameraState.posX + fixed_mul[CameraState.dirX, fwd]
              + fixed_mul[CameraState.planeX, str]
        ny == CameraState.posY + fixed_mul[CameraState.dirY, fwd]
              + fixed_mul[CameraState.planeY, str]
    IN  IF InMapBounds(FIXED_TO_INT(nx), FIXED_TO_INT(ny))
           /\ worldMap[FIXED_TO_INT(ny)][FIXED_TO_INT(nx)] = 0
        THEN <<nx, ny>>
        ELSE <<CameraState.posX, CameraState.posY>>

Camera_MoveTarget(fwd, str) ==
    <<CameraState.posX + fixed_mul[CameraState.dirX, fwd]
        + fixed_mul[CameraState.planeX, str],
      CameraState.posY + fixed_mul[CameraState.dirY, fwd]
        + fixed_mul[CameraState.planeY, str]>>

\* What the camera functions leave alone.
cameraFrame == <<overlayVars, engineVars, driverVars, bufferVars, worldMap,
                 Sprites_Array, Sprites_Count, loopVars, ret, xferVars, events, zVars>>

\* Camera_SetPosition(x, y), the doubles given in halves.
Camera_SetPosition(hx, hy) ==
    /\ pc = "camera"
    /\ CameraState' = [CameraState EXCEPT !.posX = FLOAT_TO_FIXED(hx),
                                          !.posY = FLOAT_TO_FIXED(hy)]
    /\ lastCall' = [op |-> "Camera_SetPosition", a |-> FLOAT_TO_FIXED(hx),
                    b |-> FLOAT_TO_FIXED(hy)]
    /\ UNCHANGED cameraFrame

\* Camera_SetDirection(dirX, dirY), the doubles given in thousandths.
Camera_SetDirection(mx, my) ==
    /\ pc = "camera"
    /\ CameraState' =
         WithDirection(CameraState,
                       SetDirectionDir(FLOAT_TO_FIXED_Milli(mx),
                                       FLOAT_TO_FIXED_Milli(my)))
    /\ lastCall' = [op |-> "Camera_SetDirection",
                    a |-> FLOAT_TO_FIXED_Milli(mx),
                    b |-> FLOAT_TO_FIXED_Milli(my)]
    /\ UNCHANGED cameraFrame

\* Camera_Move(forward, strafe), the doubles given in halves.
Camera_Move(hf, hs) ==
    /\ pc = "camera"
    /\ CameraState' =
         [CameraState EXCEPT
            !.posX = Camera_MoveTarget(FLOAT_TO_FIXED(hf), FLOAT_TO_FIXED(hs))[1],
            !.posY = Camera_MoveTarget(FLOAT_TO_FIXED(hf), FLOAT_TO_FIXED(hs))[2]]
    /\ lastCall' = [op |-> "Camera_Move", a |-> FLOAT_TO_FIXED(hf),
                    b |-> FLOAT_TO_FIXED(hs)]
    /\ UNCHANGED cameraFrame

\* Camera_Rotate(degrees), a whole number of degrees.
Camera_Rotate(degrees) ==
    /\ pc \in {"camera", "rotate"}
    /\ CameraState' =
         WithDirection(CameraState,
             LET r == RotatedDir(CameraState.dirX, CameraState.dirY,
                                 fixed_cos[DegreesToRadians(degrees)],
                                 fixed_sin[DegreesToRadians(degrees)])
             IN  NormalizedDir(r[1], r[2]))
    /\ lastCall' = [op |-> "Camera_Rotate", a |-> degrees, b |-> 0]
    /\ UNCHANGED cameraFrame

\* The arguments the client calls are made with. Positions: an open cell,
\* a wall tile of the top row. Directions: unit vectors, longer and shorter
\* ones, the zero vector. Moves: one step, a strafe, backward, forward into
\* the wall of the top row, forward out of the map.
ClientPositions == {<<3, 3>>, <<24, 1>>}
ClientDirections ==
    {<<1000, 0>>, <<0, -1000>>, <<-1000, -1000>>, <<500, 500>>,
     <<3000, 4000>>, <<10000, 0>>, <<0, 100000>>, <<20, 0>>, <<5, 0>>,
     <<3, 0>>, <<0, 0>>}
ClientMoves == {<<2, 0>>, <<0, 2>>, <<-1, 1>>, <<23, 0>>, <<26, 0>>}
ClientAngles == {1, -1, 45, 90, 180}

InitCamera ==
    /\ InitEngine
    /\ InitGraphics
    /\ InitScene
    /\ pc = "camera"
    /\ worldMap = ClosedMap
    /\ CameraState = InitialCamera
    /\ Sprites_Array = NoSprites
    /\ Sprites_Count = 0

NextCamera ==
    /\ calls < MaxCameraCalls
    /\ calls' = calls + 1
    /\ \/ \E a \in ClientPositions : Camera_SetPosition(a[1], a[2])
       \/ \E a \in ClientDirections : Camera_SetDirection(a[1], a[2])
       \/ \E a \in ClientMoves : Camera_Move(a[1], a[2])
       \/ \E a \in ClientAngles : Camera_Rotate(a)

SpecCamera == InitCamera /\ [][NextCamera]_vars

\* Rotations only: the first MaxTurns by one degree or by an angle of
\* TurnAngles, then any number by one degree.
TurnAngles == {0 - 1, 45, 90, 7}

InitRotate ==
    /\ InitEngine
    /\ InitGraphics
    /\ InitScene
    /\ pc = "rotate"
    /\ worldMap = ClosedMap
    /\ CameraState = InitialCamera
    /\ Sprites_Array = NoSprites
    /\ Sprites_Count = 0

RotateTurn ==
    /\ calls < MaxTurns
    /\ calls' = calls + 1
    /\ \E a \in TurnAngles : Camera_Rotate(a)

RotateDegree ==
    /\ calls' = IF calls < MaxRotations THEN calls + 1 ELSE calls
    /\ Camera_Rotate(1)

NextRotate ==
    \/ RotateTurn
    \/ RotateDegree

SpecRotate == InitRotate /\ [][NextRotate]_vars

\* C17: after every Camera_Rotate call of a sequence starting from the
\* initial camera, 1000 and more consecutive 1-degree rotations included,
\* the squared length dirX*dirX + dirY*dirY of the direction is within 4 of
\* FIXED_ONE: the error does not grow with the number of rotations.
C17_RotationKeepsUnitLength ==
    pc = "rotate" =>
        LenSq(CameraState.dirX, CameraState.dirY)
            \in (FIXED_ONE - 4) .. (FIXED_ONE + 4)

\* 1000 rotations have been made; the direction is off the axes and its
\* squared length is not exactly FIXED_ONE.
C17_Witness ==
    /\ pc = "rotate" /\ calls = MaxRotations /\ calls >= 1000
    /\ lastCall.op = "Camera_Rotate" /\ lastCall.a = 1
    /\ CameraState.dirX # 0 /\ CameraState.dirY # 0
    /\ LenSq(CameraState.dirX, CameraState.dirY) # FIXED_ONE

\* C18: in the initial state and after every camera call the plane is the
\* direction rotated by 90 degrees and scaled by the field-of-view ratio:
\* planeX = -fixed_mul(dirY, 43253) and planeY = fixed_mul(dirX, 43253).
C18_PlanePerpendicular ==
    pc = "camera" =>
        /\ CameraState.planeX = -fixed_mul[CameraState.dirY, 43253]
        /\ CameraState.planeY = fixed_mul[CameraState.dirX, 43253]

\* A rotation has followed another call that changed the direction; the
\* direction and the plane are off the axes.
C18_Witness ==
    /\ pc = "camera" /\ calls >= 2
    /\ lastCall.op = "Camera_Rotate"
    /\ CameraState.dirX # 0 /\ CameraState.dirY # 0
    /\ CameraState.planeX # 0 /\ CameraState.planeY # 0
    /\ CameraState.planeX # InitialCamera.planeX
    /\ CameraState.posX # InitialCamera.posX

\* The step is a call of the camera function op.
CameraCall(op) == calls' = calls + 1 /\ lastCall'.op = op

\* The exact length of (fx, fy) is below CAMERA_MIN_DIR_LENGTH.
BelowMinLength(fx, fy) ==
    /\ Abs(fx) < CAMERA_MIN_DIR_LENGTH
    /\ Abs(fy) < CAMERA_MIN_DIR_LENGTH
    /\ fx * fx + fy * fy < CAMERA_MIN_DIR_LENGTH * CAMERA_MIN_DIR_LENGTH

\* The components of d have the signs of fx and fy.
SameWay(d, fx, fy) ==
    /\ (fx > 0 => d[1] >= 0) /\ (fx < 0 => d[1] <= 0) /\ (fx = 0 => d[1] = 0)
    /\ (fy > 0 => d[2] >= 0) /\ (fy < 0 => d[2] <= 0) /\ (fy = 0 => d[2] = 0)

C19_Step ==
    CameraCall("Camera_SetDirection") =>
        IF BelowMinLength(lastCall'.a, lastCall'.b)
        THEN /\ CameraState'.dirX = CameraState.dirX
             /\ CameraState'.dirY = CameraState.dirY
        ELSE /\ LenSq(CameraState'.dirX, CameraState'.dirY)
                  \in (FIXED_ONE - FIXED_ONE \div 100)
                      .. (FIXED_ONE + FIXED_ONE \div 100)
             /\ SameWay(<<CameraState'.dirX, CameraState'.dirY>>,
                        lastCall'.a, lastCall'.b)

\* C19: Camera_SetDirection(dx, dy) keeps the previous direction when the
\* input is shorter than 0.01 (655), and for every other input stores a
\* direction of unit length (squared length within 1% of 65536) that points
\* the same way as the input.
C19_SetDirectionNormalizes == [][C19_Step]_vars

C19_CodedStep ==
    CameraCall("Camera_SetDirection") =>
        /\ LenSq(lastCall'.a, lastCall'.b) <= 0 =>
             /\ CameraState'.dirX = CameraState.dirX
             /\ CameraState'.dirY = CameraState.dirY
        /\ LenSq(lastCall'.a, lastCall'.b) > 0 =>
             /\ SetDirectionLen(LenSq(lastCall'.a, lastCall'.b))
                  > CAMERA_MIN_DIR_LENGTH
             /\ SameWay(<<CameraState'.dirX, CameraState'.dirY>>,
                        lastCall'.a, lastCall'.b)
        /\ LenSq(lastCall'.a, lastCall'.b) \in (FIXED_ONE \div 4) .. (2 * FIXED_ONE) =>
             LenSq(CameraState'.dirX, CameraState'.dirY)
                 \in (FIXED_ONE - 4) .. (FIXED_ONE + 4)

\* What Camera_SetDirection does: the direction is kept only when the
\* squared length computed in fixed point is 0; otherwise the length found
\* by the four Newton-Raphson steps is above the threshold and the input is
\* divided by it, which gives a unit vector for inputs of squared length
\* between 0.25 and 2.
C19_SetDirectionAsCoded == [][C19_CodedStep]_vars

\* Camera_SetDirection(10.0, 0.0) on the initial camera has stored a
\* direction of squared length 55767.
C19_Witness ==
    /\ pc = "camera" /\ calls = 1
    /\ lastCall.op = "Camera_SetDirection"
    /\ lastCall.a = 10 * FIXED_ONE /\ lastCall.b = 0
    /\ CameraState.dirX = 60455 /\ CameraState.dirY = 0
    /\ LenSq(CameraState.dirX, CameraState.dirY) = 55767

C20_Step ==
    /\ CameraCall("Camera_Move") =>
         /\ CameraState'.posX =
              CameraState.posX + fixed_mul[CameraState.dirX, lastCall'.a]
              + fixed_mul[CameraState.planeX, lastCall'.b]
         /\ CameraState'.posY =
              CameraState.posY + fixed_mul[CameraState.dirY, lastCall'.a]
              + fixed_mul[CameraState.planeY, lastCall'.b]
    /\ CameraCall("Camera_SetPosition") =>
         /\ CameraState'.posX = lastCall'.a
         /\ CameraState'.posY = lastCall'.b
    /\ (CameraCall("Camera_Move") \/ CameraCall("Camera_SetPosition")) =>
         /\ CameraState'.dirX = CameraState.dirX
         /\ CameraState'.dirY = CameraState.dirY
         /\ CameraState'.planeX = CameraState.planeX
         /\ CameraState'.planeY = CameraState.planeY
         /\ worldMap' = worldMap

\* C20: Camera_Move(forward, strafe) sets the position to
\* pos + dir*forward + plane*strafe whatever the map contains, and leaves
\* direction and plane unchanged; Camera_SetPosition changes only the
\* position.
C20_MoveIgnoresMap == [][C20_Step]_vars

\* The camera is in a cell of the map that holds a wall.
InWall ==
    /\ InMapBounds(FIXED_TO_INT(CameraState.posX), FIXED_TO_INT(CameraState.posY))
    /\ worldMap[FIXED_TO_INT(CameraState.posY)][FIXED_TO_INT(CameraState.posX)] # 0

\* Camera_Move has put the camera into a wall tile, from an open cell.
C20_Witness ==
    /\ pc = "camera" /\ calls = 1
    /\ lastCall.op = "Camera_Move" /\ lastCall.a # 0
    /\ InWall
    /\ CameraState.posX = InitialCamera.posX
    /\ CameraState.posY = InitialCamera.posY - lastCall.a

(* ------------------------------------------------------------------ *)
(* fixed.c: the reciprocals                                            *)
(* ------------------------------------------------------------------ *)
RECIP_TABLE_SIZE == 256
INT32_MIN == -FIXED_LARGE - 1

\* fixed.c recip_table; entry i of the C array is at position i + 1.
recip_table ==
    <<
      262144, 259553, 257018, 254538, 252110, 249734, 247407, 245129,
      242897, 240712, 238570, 236472, 234416, 232401, 230425, 228489,
      226590, 224728, 222901, 221110, 219352, 217628, 215936, 214276,
      212647, 211048, 209479, 207939, 206427, 204943, 203486, 202055,
      200651, 199271, 197917, 196586, 195279, 193996, 192734, 191495,
      190278, 189082, 187907, 186753, 185618, 184503, 183407, 182330,
      181271, 180231, 179207, 178201, 177212, 176239, 175283, 174342,
      173417, 172507, 171612, 170731, 169865, 169012, 168173, 167348,
      166535, 165736, 164949, 164174, 163412, 162661, 161922, 161195,
      160479, 159774, 159079, 158396, 157722, 157059, 156406, 155763,
      155129, 154505, 153890, 153285, 152688, 152100, 151521, 150950,
      150387, 149833, 149286, 148748, 148217, 147693, 147177, 146668,
      146166, 145671, 145183, 144702, 144227, 143759, 143297, 142841,
      142391, 141948, 141510, 141078, 140652, 140231, 139816, 139406,
      139001, 138602, 138207, 137818, 137433, 137053, 136678, 136308,
      135942, 135580, 135223, 134870, 134521, 134177, 133837, 133500,
      133168, 132839, 132514, 132193, 131876, 131562, 131252, 130945,
      130642, 130342, 130046, 129753, 129463, 129176, 128893, 128612,
      128335, 128061, 127789, 127521, 127255, 126993, 126733, 126476,
      126221, 125970, 125721, 125474, 125230, 124989, 124750, 124514,
      124280, 124049, 123820, 123593, 123369, 123147, 122927, 122710,
      122495, 122282, 122071, 121862, 121656, 121451, 121249, 121048,
      120850, 120654, 120459, 120267, 120076, 119888, 119701, 119516,
      119333, 119152, 118972, 118795, 118619, 118445, 118272, 118102,
      117933, 117766, 117600, 117436, 117274, 117113, 116954, 116796,
      116640, 116486, 116333, 116181, 116031, 115883, 115736, 115590,
      115446, 115303, 115162, 115022, 114883, 114746, 114610, 114475,
      114342, 114210, 114079, 113950, 113822, 113695, 113569, 113445,
      113322, 113200, 113079, 112959, 112841, 112724, 112608, 112493,
      112379, 112266, 112155, 112044, 111935, 111826, 111719, 111613,
      111508, 111404, 111300, 111198, 111097, 110997, 110898, 110800,
      110703, 110607, 110511, 110417, 110324, 110231, 110140, 110049
    >>

\* -v in int32. Negating -2^31 overflows, which is undefined in C: the
\* build wraps (the ARM rsb) or carries the exact value in a wider
\* temporary, which compares above every int32; both outcomes are kept.
NegOutcomes(v) == IF v = INT32_MIN THEN {INT32_MIN, FIXED_LARGE} ELSE {-v}

\* fixed_recip: the index of the table entry used for v, clamped to the
\* table.
recip_index(v) ==
    LET index == ((v - 16384) * (RECIP_TABLE_SIZE - 1)) \div (262144 - 16384)
    IN  IF index < 0 THEN 0
        ELSE IF index >= RECIP_TABLE_SIZE THEN RECIP_TABLE_SIZE - 1
        ELSE index

\* fixed_recip, x < 16384: fixed_div(FIXED_ONE, x), unguarded.
recip_small(m) == fixed_div[FIXED_ONE, m]

\* fixed_recip after the sign has been taken off x.
recip_magnitude(m) ==
    IF m < 16384 THEN recip_small(m)
    ELSE IF m > 262144
         THEN (IF m <= 2097152
               THEN recip_table[recip_index(m \div 8) + 1] \div 8
               ELSE fixed_div[FIXED_ONE, m])
         ELSE recip_table[recip_index(m) + 1]

\* fixed_recip(v): the values the call can return.
fixed_recip(v) ==
    IF v = 0 THEN {FIXED_LARGE}
    ELSE IF v < 0
         THEN UNION {NegOutcomes(recip_magnitude(m)) : m \in NegOutcomes(v)}
         ELSE {recip_magnitude(v)}

\* What the reciprocal calls leave alone.
fixedFrame == <<overlayVars, engineVars, driverVars, bufferVars, sceneVars,
                loopVars, calls, xferVars, events, zVars>>

\* The call fixed_recip_large(x), made once.
Call_fixed_recip_large ==
    /\ pc = "fixed"
    /\ lastCall.op = "none"
    /\ ret' = fixed_recip_large[x]
    /\ lastCall' = [op |-> "fixed_recip_large", a |-> x, b |-> 0]
    /\ UNCHANGED fixedFrame

\* The call fixed_recip(x), made once.
Call_fixed_recip ==
    /\ pc = "fixed"
    /\ lastCall.op = "none"
    /\ \E r \in fixed_recip(x) : ret' = r
    /\ lastCall' = [op |-> "fixed_recip", a |-> x, b |-> 0]
    /\ UNCHANGED fixedFrame

\* The arguments of the calls: zero and its neighbours, both sides of the
\* guard of fixed_recip_large and of each branch of fixed_recip, the powers
\* of two, the ends of the int32 range, and the table's domain 0.25 .. 4.0
\* at a step below one table entry, each with its negation.
RecipMagnitudes ==
    {0, 1, 2, 3, 4, 100, 254, 255, 256, 257, 258, 1000, 16383, 17522, 17523,
     262145, 2097152, 2097153, 2097160, FIXED_LARGE - 1, FIXED_LARGE}
    \cup {16384 + 480 * k : k \in 0 .. 512}
    \cup {16384 * k : k \in 1 .. 128}
RECURSIVE PowerOfTwo(_)
PowerOfTwo(k) == IF k = 0 THEN 1 ELSE 2 * PowerOfTwo(k - 1)
RecipInputs ==
    RecipMagnitudes \cup {PowerOfTwo(k) : k \in 0 .. 30}
    \cup {-m : m \in RecipMagnitudes} \cup {-PowerOfTwo(k) : k \in 0 .. 30}
    \cup {INT32_MIN}

\* The argument x is any of RecipInputs; the rest as after construction.
InitFixed ==
    /\ InitEngine
    /\ InitGraphics
    /\ ZBuffer = [c \in Columns |-> 0]
    /\ zWrites = [c \in Columns |-> <<>>]
    /\ zReads = {}
    /\ trav = [c \in Columns |-> "none"]
    /\ mapRead = NoRead
    /\ ray = NoRay
    /\ side = 0
    /\ frame = 0
    /\ x \in RecipInputs
    /\ pc = "fixed"
    /\ worldMap = ClosedMap
    /\ CameraState = InitialCamera
    /\ Sprites_Array = NoSprites
    /\ Sprites_Count = 0

NextFixed ==
    \/ Call_fixed_recip_large
    \/ Call_fixed_recip

SpecFixed == InitFixed /\ [][NextFixed]_vars

\* floor(2^32 / d) for 3 <= d < 2^31, from 2^32 = 2 * (2^31 - 1) + 2 and
\* without forming a number above 2^31 - 1.
TwoTo32Over(d) ==
    LET k == FIXED_LARGE \div d
        m == FIXED_LARGE % d
    IN  2 * k + (IF m + 1 = d THEN 2
                 ELSE IF m + 1 >= d - (m + 1) THEN 1 ELSE 0)

RecipCall(op) == pc = "fixed" /\ lastCall.op = op

\* C21: fixed_recip_large(x) returns FIXED_LARGE for 0 <= x < 256 and
\* -FIXED_LARGE for -256 < x < 0; for every other int32 x it returns
\* 2^32 / x (truncated toward zero), exactly, a non-zero int32 of the sign
\* of x.
C21_RecipLargeGuarded ==
    RecipCall("fixed_recip_large") =>
      /\ (lastCall.a >= 0 /\ lastCall.a < 256) => ret = FIXED_LARGE
      /\ (lastCall.a > -256 /\ lastCall.a < 0) => ret = -FIXED_LARGE
      /\ lastCall.a >= 256 => (ret = TwoTo32Over(lastCall.a) /\ ret > 0)
      /\ (lastCall.a <= -256 /\ lastCall.a # INT32_MIN) =>
           (ret = -TwoTo32Over(-lastCall.a) /\ ret < 0)
      /\ lastCall.a = INT32_MIN => ret = -2

\* fixed_recip_large was called with a negative value inside the guard.
C21_Witness ==
    /\ RecipCall("fixed_recip_large")
    /\ lastCall.a = -255
    /\ ret = -FIXED_LARGE

\* The largest relative gap between two neighbouring entries of a table of
\* RECIP_TABLE_SIZE reciprocals spread evenly over 16384 .. 262144, in
\* Q16.16, plus the rounding of an entry and of the product.
RecipQuantization ==
    (((262144 - 16384) \div (RECIP_TABLE_SIZE - 1) + 1) * FIXED_ONE)
        \div 16384 + 4

InTableDomain(v) == v >= 16384 /\ v <= 262144

\* C22: for 16384 <= x <= 262144, fixed_mul(fixed_recip(x), x) differs from
\* FIXED_ONE by no more than the quantization error of the table.
C22_RecipTimesXIsOne ==
    (RecipCall("fixed_recip") /\ InTableDomain(lastCall.a)) =>
      /\ fixed_mul[ret, lastCall.a] >= FIXED_ONE - RecipQuantization
      /\ fixed_mul[ret, lastCall.a] <= FIXED_ONE + RecipQuantization

\* C22, as coded: the product is within the quantization error only for
\* x up to 17522 (0.267); for every x of the domain it is at least
\* FIXED_ONE - 4 and at most 440558 (6.72), and the entry returned is the
\* one the index formula selects.
C22_RecipAsCoded ==
    (RecipCall("fixed_recip") /\ InTableDomain(lastCall.a)) =>
      /\ ret = recip_table[recip_index(lastCall.a) + 1]
      /\ fixed_mul[ret, lastCall.a] >= FIXED_ONE - 4
      /\ fixed_mul[ret, lastCall.a] <= 440558
      /\ lastCall.a <= 17522 =>
           fixed_mul[ret, lastCall.a] <= FIXED_ONE + RecipQuantization

\* fixed_recip(4.0) has returned the last entry of the table.
C22_Witness ==
    /\ RecipCall("fixed_recip")
    /\ lastCall.a = 262144
    /\ ret = 110049

\* 1 / x does not fit Q16.16: 2^32 / |x| is above 2^31 - 1.
TooCloseToZero(v) == v # 0 /\ v >= -2 /\ v <= 2

\* C30: fixed_recip(0) = FIXED_LARGE; for every non-zero x the result has
\* the sign of x; for x too close to zero for 1 / x to fit, the result is
\* FIXED_LARGE with the sign of x.
C30_RecipNeverOverflows ==
    RecipCall("fixed_recip") =>
      /\ lastCall.a = 0 => ret = FIXED_LARGE
      /\ lastCall.a > 0 => ret > 0
      /\ lastCall.a < 0 => ret < 0
      /\ (TooCloseToZero(lastCall.a) /\ lastCall.a > 0) => ret = FIXED_LARGE
      /\ (TooCloseToZero(lastCall.a) /\ lastCall.a < 0) => ret = -FIXED_LARGE

\* C30, as coded: fixed_recip(0) = FIXED_LARGE and the result has the sign
\* of x for 3 <= |x| < 2^31; fixed_recip(1) = fixed_recip(-1) = 0 and
\* fixed_recip(2) = -2^31, the wrapped quotients.
C30_RecipAsCoded ==
    RecipCall("fixed_recip") =>
      /\ lastCall.a = 0 => ret = FIXED_LARGE
      /\ lastCall.a >= 3 => ret > 0
      /\ (lastCall.a <= -3 /\ lastCall.a # INT32_MIN) => ret < 0
      /\ lastCall.a \in {-1, 1} => ret = 0
      /\ lastCall.a = 2 => ret = INT32_MIN
      /\ lastCall.a = -2 => ret \in {INT32_MIN, FIXED_LARGE}
      /\ lastCall.a = INT32_MIN => ret \in {-2, 2}

\* fixed_recip(2) has returned a negative value.
C30_Witness ==
    /\ RecipCall("fixed_recip")
    /\ lastCall.a = 2
    /\ ret < 0

(* ------------------------------------------------------------------ *)
(* graphics.c: the overlay queues under a client's calls (SpecOverlay) *)
(* ------------------------------------------------------------------ *)
\* Overlay submissions a client makes per behaviour.
MaxOverlayCalls == 1

\* if (count >= MAX) return, never taken.
QueueFull_Never(queue, max) == FALSE

\* textQueueCount >= MAX_TEXT_QUEUE, fgSpriteQueueCount >= MAX_FG_SPRITE_QUEUE
QueueFull(queue, max) == Len(queue) >= max

\* Graphics_Text: the copy of the text, at most MAX_TEXT_LENGTH - 1
\* characters before the terminator.
TruncatedText(text) ==
    SubSeq(text, 1, IF Len(text) < MAX_TEXT_LENGTH - 1 THEN Len(text)
                    ELSE MAX_TEXT_LENGTH - 1)

\* What the submissions leave alone.
overlayFrame == <<engineVars, driverVars, bufferVars, sceneVars, loopVars,
                  ret, xferVars, events, zVars, fpsEnabled, overlaid>>

\* Graphics_Text(text, x, y, color), between two render calls.
Graphics_Text(text, tx, ty, color) ==
    /\ pc = "idle"
    /\ textQueue' =
         IF QueueFull(textQueue, MAX_TEXT_QUEUE) THEN textQueue
         ELSE Append(textQueue, [text |-> TruncatedText(text), x |-> tx,
                                 y |-> ty, color |-> color])
    /\ lastCall' = [op |-> "Graphics_Text",
                    entry |-> [text |-> TruncatedText(text), x |-> tx,
                               y |-> ty, color |-> color],
                    count |-> Len(textQueue)]
    /\ UNCHANGED <<overlayFrame, fgSpriteQueue>>

\* Graphics_ForegroundSprite(image, x, y, width, height, scale, transparent),
\* between two render calls.
Graphics_ForegroundSprite(image, sx, sy, width, height, scale, transparent) ==
    /\ pc = "idle"
    /\ fgSpriteQueue' =
         IF QueueFull(fgSpriteQueue, MAX_FG_SPRITE_QUEUE) THEN fgSpriteQueue
         ELSE Append(fgSpriteQueue,
                     [image |-> image, x |-> sx, y |-> sy, width |-> width,
                      height |-> height, scale |-> scale,
                      transparent |-> transparent])
    /\ lastCall' = [op |-> "Graphics_ForegroundSprite",
                    entry |-> [image |-> image, x |-> sx, y |-> sy,
                               width |-> width, height |-> height,
                               scale |-> scale, transparent |-> transparent],
                    count |-> Len(fgSpriteQueue)]
    /\ UNCHANGED <<overlayFrame, textQueue>>

\* The submissions of the client: a short text, one of 40 characters; a
\* foreground sprite at the bottom centre of the screen.
ClientTexts ==
    {<<(<<72, 80>>), 4, 4>>, <<[i \in 1 .. 40 |-> 65 + (i % 26)], 60, 100>>}
ClientFgSprites == {<<"gun", 80, 127, 16, 16, 2>>}

\* The queues after n accepted submissions.
TextsQueued(n) ==
    [i \in 1 .. n |-> [text |-> <<48 + i>>, x |-> 4, y |-> 8 * i,
                       color |-> 65535]]
FgSpritesQueued(n) ==
    [i \in 1 .. n |-> [image |-> "icon", x |-> 16 * i, y |-> 20, width |-> 8,
                       height |-> 8, scale |-> 1, transparent |-> 0]]

\* <<texts queued, foreground sprites queued, fpsEnabled>> at the start:
\* both queues empty, or one full and the other one short of full; the FPS
\* overlay off or on (Graphics_DisplayFPS).
OverlaySetups ==
    {<<0, 0, 1>>,
     <<MAX_TEXT_QUEUE - 1, MAX_FG_SPRITE_QUEUE, 1>>,
     <<MAX_TEXT_QUEUE, MAX_FG_SPRITE_QUEUE - 1, 0>>}

InitOverlay ==
    /\ InitEngine
    /\ InitScene
    /\ pc = "idle"
    /\ worldMap = ClosedMap
    /\ CameraState = InitialCamera
    /\ Sprites_Array = NoSprites
    /\ Sprites_Count = 0
    /\ overlaid = <<>>
    /\ \E n \in OverlaySetups :
         /\ textQueue = TextsQueued(n[1])
         /\ fgSpriteQueue = FgSpritesQueued(n[2])
         /\ fpsEnabled = n[3]

Client_Graphics_Text ==
    /\ calls < MaxOverlayCalls
    /\ calls' = calls + 1
    /\ \E a \in ClientTexts : Graphics_Text(a[1], a[2], a[3], 65535)

Client_Graphics_ForegroundSprite ==
    /\ calls < MaxOverlayCalls
    /\ calls' = calls + 1
    /\ \E a \in ClientFgSprites :
         Graphics_ForegroundSprite(a[1], a[2], a[3], a[4], a[5], a[6], 0)

NextOverlay ==
    \/ RenderStep
    \/ DMA_IRQHandler
    \/ Client_Graphics_Text
    \/ Client_Graphics_ForegroundSprite

SpecOverlay == InitOverlay /\ [][NextOverlay]_vars

OverlayCall(op) == lastCall'.op = op /\ calls' = calls + 1

\* A submission to a queue of 8 leaves both queues as they are; any other
\* appends the entry to its queue and leaves the other queue as it is.
C23_Step ==
    /\ OverlayCall("Graphics_Text") =>
         /\ fgSpriteQueue' = fgSpriteQueue
         /\ IF Len(textQueue) = 8 THEN textQueue' = textQueue
            ELSE textQueue' = Append(textQueue, lastCall'.entry)
    /\ OverlayCall("Graphics_ForegroundSprite") =>
         /\ textQueue' = textQueue
         /\ IF Len(fgSpriteQueue) = 8 THEN fgSpriteQueue' = fgSpriteQueue
            ELSE fgSpriteQueue' = Append(fgSpriteQueue, lastCall'.entry)

\* C23: the text queue and the foreground-sprite queue hold at most 8
\* entries each after any sequence of Graphics_Text,
\* Graphics_ForegroundSprite and render calls; a submission to a queue that
\* holds 8 is dropped and changes no entry and no count.
C23_QueuesBounded ==
    /\ [](Len(textQueue) \in 0 .. 8 /\ Len(fgSpriteQueue) \in 0 .. 8)
    /\ [][C23_Step]_vars

\* Graphics_Text was called with 8 texts queued; the queue is as before.
C23_Witness ==
    /\ pc = "idle"
    /\ lastCall.op = "Graphics_Text"
    /\ lastCall.count = 8
    /\ textQueue = TextsQueued(8)

\* The overlay draw calls made for band k, in the order made.
BandDraws(k) == SelectSeq(overlaid, LAMBDA d : d.side = k)

\* The overlays of band k have been drawn in the current render call.
OverlaysDone(k) ==
    /\ pc # "idle"
    /\ \/ k < side
       \/ k = side /\ pc \in {"Wait", "RenderDMA", "RenderDMA_start"}

\* Band k: one draw call per queued foreground sprite, then one per queued
\* text, then the FPS overlay if enabled, all on the buffer buf.
FullyOverlaid(k, draws) ==
    /\ Len(draws) = Len(fgSpriteQueue) + Len(textQueue)
                    + (IF fpsEnabled = 0 THEN 0 ELSE 1)
    /\ \A i \in 1 .. Len(fgSpriteQueue) :
         draws[i].kind = "fg" /\ draws[i].entry = fgSpriteQueue[i]
    /\ \A i \in 1 .. Len(textQueue) :
         /\ draws[Len(fgSpriteQueue) + i].kind = "text"
         /\ draws[Len(fgSpriteQueue) + i].entry = textQueue[i]
    /\ fpsEnabled # 0 => draws[Len(draws)].kind = "fps"

C24_Drawn ==
    /\ \A k \in 0 .. (NUM_BANDS - 1) :
         IF OverlaysDone(k) THEN FullyOverlaid(k, BandDraws(k))
         ELSE pc # "idle" => BandDraws(k) = <<>>
    /\ \A i \in 1 .. Len(events) :
         (pc # "idle" /\ events[i].ev = "start") =>
           /\ OverlaysDone(events[i].side)
           /\ \A j \in 1 .. Len(overlaid) :
                overlaid[j].side = events[i].side =>
                  overlaid[j].buf = events[i].buf

\* The queues are what they were when the render call was made until it
\* resets both counts, and it returns right after.
C24_Step ==
    /\ (pc # "idle" /\ pc # "ClearQueues") =>
         (textQueue' = textQueue /\ fgSpriteQueue' = fgSpriteQueue)
    /\ (pc = "ClearQueues" /\ pc' # pc) =>
         (pc' = "idle" /\ textQueue' = <<>> /\ fgSpriteQueue' = <<>>)
    /\ (pc = "ClearQueues" /\ pc' = pc) =>
         (textQueue' = textQueue /\ fgSpriteQueue' = fgSpriteQueue)

\* C24: every entry in the text or foreground-sprite queue when the render
\* call is made is drawn once in each of the 4 bands, after that band's
\* world sprites, before its FPS overlay and before its transfer is
\* started, on the buffer that is transferred; both queues are empty when
\* the render call returns.
C24_QueuesDrawnThenCleared ==
    /\ []C24_Drawn
    /\ [][C24_Step]_vars

\* The fourth band of a frame has been overlaid with 8 texts, one of them
\* submitted by the client before the render call, 8 foreground sprites and
\* the FPS overlay.
C24_Witness ==
    /\ pc = "ClearQueues"
    /\ frame = 1 /\ calls = 1
    /\ Len(textQueue) = 8 /\ Len(fgSpriteQueue) = 8
    /\ fpsEnabled = 1
    /\ Len(overlaid) = NUM_BANDS * 17

(* ------------------------------------------------------------------ *)
(* Sprites_RenderAll: the drawing order                                *)
(* ------------------------------------------------------------------ *)
\* The slots drawn on column b of the render buffer, in the order drawn.
DrawnOn(b) == pixels[Buffer_RenderBuffer][b].sprites

\* C25: once the sprite stage of a band is done, every column of the band
\* has been drawn on by exactly the active slots that are visible on it,
\* once each, in order of non-increasing squared distance from the camera;
\* so the last one drawn, whose pixels stay, is the nearest of them.
C25_FarthestFirst ==
    pc = "Overlays" =>
      \A b \in BufCols :
        /\ \A k \in 1 .. Len(DrawnOn(b)) :
             Sprites_Array[DrawnOn(b)[k]].active # 0
        /\ \A i \in Slots :
             Cardinality({k \in 1 .. Len(DrawnOn(b)) : DrawnOn(b)[k] = i})
               = IF /\ Sprites_Array[i].active # 0
                    /\ (b + side * BUFFER_WIDTH) \in SpriteColumns(i, side)
                 THEN 1 ELSE 0
        /\ \A j, k \in 1 .. Len(DrawnOn(b)) :
             j < k =>
               SpriteDistance(DrawnOn(b)[j]) >= SpriteDistance(DrawnOn(b)[k])
        /\ \A k \in 1 .. Len(DrawnOn(b)) :
             SpriteDistance(DrawnOn(b)[Len(DrawnOn(b))])
               <= SpriteDistance(DrawnOn(b)[k])

\* Two sprites at different distances have been drawn on one column, the
\* farther one first.
C25_Witness ==
    /\ pc = "Overlays"
    /\ \E b \in BufCols :
         /\ Len(DrawnOn(b)) >= 2
         /\ SpriteDistance(DrawnOn(b)[1]) > SpriteDistance(DrawnOn(b)[2])

(* ------------------------------------------------------------------ *)
(* The driver's callback contract, with the interrupt eventually taken *)
(* ------------------------------------------------------------------ *)
\* The channel completes every transfer it was given: the completion
\* interrupt of a transfer in flight is eventually taken.
SpecEngineLive == SpecEngine /\ WF_vars(DMA_IRQHandler)

\* The k-th call of the client was ST7735_DrawBitmapDMA with callback k
\* and has returned r.
DrawReturned(k, r) ==
    /\ lastCall.op = "ST7735_DrawBitmapDMA"
    /\ lastCall.id = k /\ lastCall.cb = k
    /\ ret = r

\* A transfer carrying callback k has been started.
StartedFor(k) == \E i \in 1 .. Len(started) : started[i].cb = k

\* How many times callback k has been invoked.
TimesInvoked(k) == Cardinality({i \in 1 .. Len(invoked) : invoked[i] = k})

\* The bitmap of the last ST7735_DrawBitmapDMA call has no pixel on screen.
OffScreenCall ==
    OffScreen(lastCall.x, BUFFER_HEIGHT - 1, lastCall.w, BUFFER_HEIGHT)

\* C26: whenever ST7735_DrawBitmapDMA returns 0 with a non-null callback a
\* transfer has been started and the callback is eventually invoked,
\* exactly once; whenever it returns -1 no transfer has been started and
\* the callback is never invoked.
C26_CallbackFollowsReturn ==
    \A k \in 1 .. MaxCalls :
      /\ [](DrawReturned(k, 0) => StartedFor(k))
      /\ [](DrawReturned(k, 0) => <>(TimesInvoked(k) = 1))
      /\ [](TimesInvoked(k) <= 1)
      /\ [](DrawReturned(k, 0 - 1) => ~StartedFor(k))
      /\ [](DrawReturned(k, 0 - 1) => [](TimesInvoked(k) = 0))

\* C26, as coded: the same for a bitmap with a pixel on screen; for a
\* bitmap off screen the call returns 0 as well, starts no transfer and its
\* callback is never invoked.
C26_CallbackAsCoded ==
    \A k \in 1 .. MaxCalls :
      /\ []((DrawReturned(k, 0) /\ ~OffScreenCall) => StartedFor(k))
      /\ []((DrawReturned(k, 0) /\ ~OffScreenCall)
              => <>(TimesInvoked(k) = 1))
      /\ [](TimesInvoked(k) <= 1)
      /\ []((DrawReturned(k, 0) /\ OffScreenCall) => ~StartedFor(k))
      /\ []((DrawReturned(k, 0) /\ OffScreenCall)
              => [](TimesInvoked(k) = 0))
      /\ [](DrawReturned(k, 0 - 1) => ~StartedFor(k))
      /\ [](DrawReturned(k, 0 - 1) => [](TimesInvoked(k) = 0))

\* ST7735_DrawBitmapDMA has returned 0 for an off-screen bitmap and a
\* callback, with the engine idle and no transfer started.
C26_Witness ==
    /\ DrawReturned(1, 0)
    /\ OffScreenCall
    /\ lastCall.busy = 0
    /\ started = <<>>
    /\ ~InFlight

(* ------------------------------------------------------------------ *)
(* CastRays inside a closed perimeter                                  *)
(* ------------------------------------------------------------------ *)
\* Every tile of the perimeter of the map is a wall.
PerimeterClosed ==
    \A r \in 0 .. (MAP_HEIGHT - 1) : \A c \in 0 .. (MAP_WIDTH - 1) :
        OnPerimeter(r, c) => worldMap[r][c] > 0

\* The camera stands in a cell that is not on the perimeter.
InteriorCamera ==
    /\ FIXED_TO_INT(CameraState.posX) \in 1 .. (MAP_WIDTH - 2)
    /\ FIXED_TO_INT(CameraState.posY) \in 1 .. (MAP_HEIGHT - 2)

\* C27: on a map with a closed perimeter and the camera in an interior
\* cell, the traversal of every column ends on a wall: the ray never leaves
\* the map, the loop never stops for want of budget, a wall that was found
\* is not discarded by the maxSteps <= 0 test, and once the band is cast
\* every ZBuffer entry of the band is below the sentinel.
C27_ClosedMapAlwaysHits ==
    (PerimeterClosed /\ InteriorCamera) =>
        /\ \A c \in Columns : trav[c] \in {"none", "wall"}
        /\ pc = "dda" =>
             /\ ray.hit \in {0, 1}
             /\ ray.maxSteps > 0
             /\ ray.mapX \in 0 .. (MAP_WIDTH - 1)
             /\ ray.mapY \in 0 .. (MAP_HEIGHT - 1)
             /\ (ray.hit = 1 => ~SkipColumn(ray))
        /\ \A c \in Columns : trav[c] = "wall" => ZBuffer[c] < FIXED_LARGE
        /\ pc = "Sprites" =>
             \A c \in BandStart(side) .. (BandEnd(side) - 1) :
                 /\ trav[c] = "wall"
                 /\ zWrites[c] # <<>>
                 /\ ZBuffer[c] < FIXED_LARGE

\* From the corner cell, looking along the diagonal of the closed map, a
\* band is cast whose every column found a wall, one of them more than
\* twenty cells away.
C27_Witness ==
    /\ PerimeterClosed /\ InteriorCamera
    /\ FIXED_TO_INT(CameraState.posX) = 1
    /\ CameraState.dirX > 0 /\ CameraState.dirY > 0
    /\ pc = "Sprites"
    /\ \A c \in BandStart(side) .. (BandEnd(side) - 1) :
         trav[c] = "wall" /\ ZBuffer[c] < FIXED_LARGE
    /\ \E c \in BandStart(side) .. (BandEnd(side) - 1) :
         ZBuffer[c] > 20 * FIXED_ONE

(* ------------------------------------------------------------------ *)
(* buffer.c under a client's calls (SpecBuffer)                        *)
(* ------------------------------------------------------------------ *)
\* SWAP16(c): the two bytes of a 16-bit colour exchanged.
SWAP16(c) == ((c \div 256) + ((c * 256) % 65536)) % 65536

\* <<x, y, color>> a client passes to Buffer_SetPixel: two pixels of the
\* buffer and one right of it.
ClientPixels ==
    {<<0, 0, 31>>, <<BUFFER_WIDTH - 1, BUFFER_HEIGHT - 1, 63488>>,
     <<BUFFER_WIDTH, 0, 31>>}

\* The client calls Buffer_Clear.
Client_Buffer_Clear ==
    /\ pc = "client"
    /\ calls < MaxCalls
    /\ pixels' = [pixels EXCEPT
                    ![Buffer_RenderBuffer] = [c \in BufCols |-> Background]]
    /\ lastCall' = [op |-> "Buffer_Clear", id |-> calls + 1, cb |-> NULL,
                     data |-> Buffer_RenderBuffer, length |-> 0,
                     busy |-> dmaBusy]
    /\ calls' = calls + 1
    /\ UNCHANGED <<overlayVars, engineVars, driverVars, Buffer_RenderBuffer,
                   DmaBuffer, sceneVars, loopVars, ret, xferVars, events,
                   zVars>>

\* The client calls Buffer_SetPixel(x, y, color): inside the buffer the
\* byte-swapped colour is stored at row BUFFER_HEIGHT - 1 - y of column x
\* of the render buffer; outside nothing is written.
Client_Buffer_SetPixel ==
    /\ pc = "client"
    /\ calls < MaxCalls
    /\ \E a \in ClientPixels :
         /\ pixels' =
              IF a[1] >= 0 /\ a[1] < BUFFER_WIDTH
                 /\ a[2] >= 0 /\ a[2] < BUFFER_HEIGHT
              THEN [pixels EXCEPT
                      ![Buffer_RenderBuffer][a[1]].set =
                          Append(@, [row |-> BUFFER_HEIGHT - 1 - a[2],
                                     color |-> SWAP16(a[3])])]
              ELSE pixels
         /\ lastCall' = [op |-> "Buffer_SetPixel", id |-> calls + 1,
                         cb |-> NULL, data |-> Buffer_RenderBuffer,
                         length |-> a[1], busy |-> dmaBusy]
    /\ calls' = calls + 1
    /\ UNCHANGED <<overlayVars, engineVars, driverVars, Buffer_RenderBuffer,
                   DmaBuffer, sceneVars, loopVars, ret, xferVars, events,
                   zVars>>

\* The client calls Buffer_WaitComplete: the call returns once the engine
\* is idle.
Client_Buffer_WaitComplete ==
    /\ pc = "client"
    /\ calls < MaxCalls
    /\ WaitDone
    /\ lastCall' = [op |-> "Buffer_WaitComplete", id |-> calls + 1,
                     cb |-> NULL, data |-> "none", length |-> 0,
                     busy |-> dmaBusy]
    /\ calls' = calls + 1
    /\ UNCHANGED <<overlayVars, engineVars, driverVars, bufferVars,
                   sceneVars, loopVars, ret, xferVars, events, zVars>>

NextBuffer ==
    \/ Client_Buffer_Clear
    \/ Client_Buffer_SetPixel
    \/ Client_Buffer_WaitComplete
    \/ Client_RenderDMA
    \/ DMA_IRQHandler

SpecBuffer == InitClient /\ [][NextBuffer]_vars

\* A step that is a call of Buffer_RenderDMA.
RenderDMACall == calls' = calls + 1 /\ lastCall'.op = "Buffer_RenderDMA"

\* What C28 says of one call: a call made with a transfer in flight is
\* refused and leaves the roles as they were.
C28_Step ==
    (RenderDMACall /\ dmaBusy # 0) =>
        /\ ret' = 0 - 1
        /\ UNCHANGED <<Buffer_RenderBuffer, DmaBuffer>>

\* C28 (as stated): a Buffer_RenderDMA refused because a transfer is in
\* flight leaves the render/DMA roles unchanged, and whatever the client
\* calls, the render buffer is never the buffer a transfer in flight was
\* started on.
C28_RefusedCallKeepsRoles ==
    /\ [][C28_Step]_vars
    /\ [](InFlight => xfer.image # Buffer_RenderBuffer)

\* What the code does in one call of Buffer_RenderDMA: the roles are
\* swapped in every call; a call with the engine busy returns -1 and
\* starts nothing, a call with the engine idle returns 0 with the buffer
\* that was rendered in flight.
C28_CodedStep ==
    RenderDMACall =>
        /\ Buffer_RenderBuffer' = DmaBuffer
        /\ DmaBuffer' = Buffer_RenderBuffer
        /\ IF dmaBusy # 0
           THEN /\ ret' = 0 - 1
                /\ UNCHANGED <<xfer, txBuffer, dmaBusy, started>>
                /\ (xfer.image = DmaBuffer =>
                       xfer.image = Buffer_RenderBuffer')
           ELSE /\ ret' = 0
                /\ InFlight'
                /\ xfer'.image = Buffer_RenderBuffer
                /\ txBuffer'.content = pixels[Buffer_RenderBuffer]

\* C28 (as the code has it): every call of Buffer_RenderDMA swaps the
\* roles, the refused one too; Buffer_Clear and Buffer_SetPixel write the
\* render buffer only; the engine reads the driver's copy, which no buffer
\* call changes while the transfer is in flight.
C28_RefusedCallSwapsRoles ==
    /\ [][C28_CodedStep]_vars
    /\ [][\A b \in Buffers :
            pixels'[b] # pixels[b] => b = Buffer_RenderBuffer]_vars
    /\ [][(InFlight /\ InFlight' /\ xfer' = xfer) =>
             txBuffer' = txBuffer]_vars
    /\ [](InFlight => xfer.image = txBuffer.image)

\* A Buffer_RenderDMA was refused with a transfer in flight, and the
\* Buffer_SetPixel that followed wrote the buffer that transfer was
\* started on, which now differs from what was handed to the transfer.
C28_Witness ==
    /\ InFlight
    /\ calls = 3
    /\ lastCall.op = "Buffer_SetPixel" /\ lastCall.busy = 1
    /\ lastCall.data = xfer.image
    /\ Buffer_RenderBuffer = xfer.image
    /\ pixels[xfer.image] # txBuffer.content

(* ------------------------------------------------------------------ *)
(* A completion callback that starts the next transfer (SpecNested)    *)
(* ------------------------------------------------------------------ *)
\* dmaBusy when DMA_IRQHandler calls cb(): the handler has cleared it.
BusyAtCallback == 0

\* userCallback when DMA_IRQHandler calls cb(): copied to cb and cleared.
RegistrationAtCallback == NULL

\* userCallback when DMA_IRQHandler returns, cleared after cb() instead.
RegistrationAfterCallback_Cleared(reg) == NULL

\* userCallback when DMA_IRQHandler returns: what cb() left; the handler
\* does nothing after cb().
RegistrationAfterCallback(reg) == reg

\* The calls a client's callback makes: a direct transfer, one of length
\* 0, and a bitmap of the DMA buffer.
NestedStarts ==
    {[fn |-> "SPI_DMA_StartTransfer", data |-> "client", length |-> 2],
     [fn |-> "SPI_DMA_StartTransfer", data |-> "client", length |-> 0],
     [fn |-> "ST7735_DrawBitmapDMA", data |-> "txBuffer",
      length |-> (BUFFER_WIDTH * BUFFER_HEIGHT) * 2]}

\* DMA_IRQHandler when the client's callback starts a transfer: dmaBusy and
\* the registration are cleared, cb() runs (through the driver's wrapper,
\* which clears dmaUserCallback first, for a bitmap transfer), the callback
\* calls SPI_DMA_StartTransfer or ST7735_DrawBitmapDMA, and the handler
\* returns.
DMA_IRQHandler_Nested ==
    /\ xfer.id # 0
    /\ calls < MaxCalls
    /\ userCallback # NULL
    /\ LET client == IF userCallback = DMA_InternalCallback
                     THEN dmaUserCallback ELSE userCallback
           wrapSeen == IF userCallback = DMA_InternalCallback
                       THEN NULL ELSE dmaUserCallback
       IN  /\ client # NULL
           /\ \E n \in NestedStarts, cb2 \in {NULL, calls + 1} :
                LET viaDriver == n.fn = "ST7735_DrawBitmapDMA"
                    driverRuns == viaDriver /\ BusyAtCallback = 0
                    engineCalled == ~viaDriver \/ driverRuns
                    accepted == /\ engineCalled
                                /\ BusyAtCallback = 0
                                /\ ~BadParams(n.data, n.length)
                    engineCb == IF viaDriver THEN DMA_InternalCallback
                                ELSE cb2
                IN  /\ invoked' = Append(invoked, client)
                    /\ completed' = completed \cup {xfer.id}
                    /\ txBuffer' =
                         IF driverRuns
                         THEN [image |-> DmaBuffer, x0 |-> 0,
                               x1 |-> BUFFER_WIDTH - 1,
                               content |-> pixels[DmaBuffer]]
                         ELSE txBuffer
                    /\ dmaUserCallback' = IF driverRuns THEN cb2 ELSE wrapSeen
                    /\ IF accepted
                       THEN /\ dmaBusy' = 1
                            /\ userCallback' =
                                 RegistrationAfterCallback(engineCb)
                            /\ DMASA' = n.data
                            /\ DMASZ' = n.length % 65536
                            /\ ret' = 0
                            /\ xfer' = [id |-> Len(started) + 1,
                                        image |-> IF viaDriver THEN DmaBuffer
                                                  ELSE "client",
                                        side |-> IF viaDriver THEN 0
                                                 ELSE 0 - 1,
                                        cb |-> cb2]
                            /\ started' =
                                 Append(started,
                                        [id |-> Len(started) + 1,
                                         image |-> IF viaDriver THEN DmaBuffer
                                                   ELSE "client",
                                         side |-> IF viaDriver THEN 0
                                                  ELSE 0 - 1,
                                         cb |-> cb2, frame |-> frame])
                       ELSE /\ dmaBusy' = BusyAtCallback
                            /\ userCallback' =
                                 RegistrationAfterCallback(
                                     RegistrationAtCallback)
                            /\ ret' = 0 - 1
                            /\ xfer' = NoXfer
                            /\ UNCHANGED <<DMASA, DMASZ, started>>
                    /\ lastCall' = [op |-> "Callback", fn |-> n.fn,
                                    id |-> calls + 1, cb |-> cb2,
                                    data |-> n.data, length |-> n.length,
                                    busy |-> BusyAtCallback,
                                    reg |-> RegistrationAtCallback,
                                    by |-> client]
    /\ calls' = calls + 1
    /\ UNCHANGED <<overlayVars, bufferVars, sceneVars, loopVars, events,
                   zVars>>

NextNested ==
    \/ Client_StartTransfer
    \/ Client_DrawBitmapDMA
    \/ DMA_IRQHandler
    \/ DMA_IRQHandler_Nested

SpecNested == InitClient /\ [][NextNested]_vars

\* A step in which a completion callback made a call of its own.
NestedCall == calls' = calls + 1 /\ lastCall'.op = "Callback"

\* What C29 says of one such step.
C29_Step ==
    NestedCall =>
        /\ lastCall'.busy = 0
        /\ lastCall'.reg = NULL
        /\ invoked' = Append(invoked, lastCall'.by)
        /\ xfer.id \in completed'
        /\ ~BadParams(lastCall'.data, lastCall'.length) =>
             /\ ret' = 0
             /\ dmaBusy' = 1
             /\ InFlight'
             /\ xfer'.id = Len(started) + 1
             /\ xfer'.cb = lastCall'.cb
             /\ IF lastCall'.fn = "ST7735_DrawBitmapDMA"
                THEN /\ userCallback' = DMA_InternalCallback
                     /\ dmaUserCallback' = lastCall'.cb
                ELSE userCallback' = lastCall'.cb

\* C29: when a completion callback runs the engine is idle and the
\* registration of the finished transfer is cleared; a transfer the
\* callback starts is accepted, its callback stays registered when the
\* handler returns, and it is invoked exactly once, when that transfer has
\* completed.
C29_NestedStartKept ==
    /\ [][C29_Step]_vars
    /\ [](InFlight <=> dmaBusy = 1)
    /\ [](\A i, j \in 1 .. Len(invoked) : invoked[i] = invoked[j] => i = j)
    /\ [](\A k \in 1 .. Len(started) :
            started[k].cb # NULL =>
                (k \in completed <=> \E i \in 1 .. Len(invoked) :
                                         invoked[i] = started[k].cb))

\* The callback of the first transfer started a second one with a callback
\* of its own; that transfer has completed and its callback has run, once,
\* after the first.
C29_Witness ==
    /\ lastCall.op = "Callback"
    /\ lastCall.cb # NULL
    /\ ret = 0
    /\ ~InFlight
    /\ Len(started) = 2 /\ completed = {1, 2}
    /\ started[2].cb = lastCall.cb
    /\ invoked = <<started[1].cb, lastCall.cb>>

====
